---- MODULE Spec2Model ----
(***************************************************************************)
(* Budget planner: the route handlers (loader/action pairs) over the       *)
(* relational store, modelled as request processes.  Every `await prisma`  *)
(* call of a handler is one atomic step on the database; requests of       *)
(* different processes interleave between their steps.                     *)
(*                                                                         *)
(* Money and percentages are integers counted in hundredths.               *)
(***************************************************************************)
EXTENDS Integers, Sequences, FiniteSets, TLC

\* ---------------------------------------------------------------- bounds
\* ids the database hands out (one per insert operation)
MaxId == 4

\* the request processes that may be in flight together
Procs == {"p1", "p2"}

VARIABLES
    users,          \* table User:        set of rows
    categories,     \* table Category:    set of rows
    transactions,   \* table Transaction: set of rows
    incomes,        \* table Income:      set of rows
    budgets,        \* table Budget:      set of rows
    nextId,         \* the next id the database generates
    req             \* per process: the request it is handling and its locals

vars == <<users, categories, transactions, incomes, budgets, nextId, req>>

\* ---------------------------------------------------------------- values
NoId == 0
NULL == "null"      \* a form field that is absent (formData.get gives null)

\* a JavaScript number: NaN, or a value in hundredths
Num(n) == [nan |-> FALSE, v |-> n]
NaN == [nan |-> TRUE, v |-> 0]

\* parseFloat on the form strings the requests carry
parseFloat(s) ==
    CASE s = "100"  -> Num(10000)
      [] s = "250"  -> Num(25000)
      [] s = "2000" -> Num(200000)
      [] s = "25"   -> Num(2500)
      [] s = "50"   -> Num(5000)
      [] s = "150"  -> Num(15000)
      [] s = "0"    -> Num(0)
      [] s = "-5"   -> Num(-500)
      [] OTHER      -> NaN

\* parseInt on the form strings the requests carry (a whole number, not scaled)
parseInt(s) ==
    CASE s = "3"    -> Num(3)
      [] s = "4"    -> Num(4)
      [] s = "6"    -> Num(6)
      [] s = "13"   -> Num(13)
      [] s = "0"    -> Num(0)
      [] s = "2025" -> Num(2025)
      [] OTHER      -> NaN

\* ---------------------------------------------------------------- requests
Idle ==
    [kind |-> "idle", pc |-> "idle", session |-> NoId, id |-> NoId,
     amount |-> Num(0), month |-> 0, year |-> 0, email |-> "", password |-> "",
     form |-> [amount |-> NULL, category |-> NULL, description |-> NULL,
               date |-> NULL, isRecurring |-> NULL, frequency |-> NULL],
     budget |-> [budgetType |-> NULL, amount |-> NULL, percentage |-> NULL,
                 totalIncome |-> NULL, month |-> NULL, year |-> NULL],
     summary |-> [totalIncome |-> 0, totalExpenses |-> 0, budgetAmount |-> 0,
                  remaining |-> 0, percentage |-> Num(0), status |-> "", tz |-> 0],
     message |-> NULL, credential |-> NULL, hashed |-> "", compares |-> 0,
     list |-> NULL,
     analytics |-> NULL,
     result |-> ""]

\* a request that has returned (or thrown): its outcome is kept, with the
\* budget form it submitted
Done(r, res) ==
    [Idle EXCEPT !.kind = r.kind, !.pc = "done", !.session = r.session, !.id = r.id,
                 !.month = r.month, !.year = r.year, !.email = r.email,
                 !.budget = r.budget, !.summary = r.summary,
                 !.analytics = r.analytics, !.message = r.message,
                 !.credential = r.credential, !.compares = r.compares, !.list = r.list,
                 !.result = res]

\* new URL(request.url).pathname of the route a request kind is served on
pathname(kind) ==
    CASE kind = "budgets.new"                                -> "/budgets/new"
      [] kind \in {"save-budget", "delete-budget", "budgets"} -> "/budgets"
      [] kind \in {"transactions.new", "transactions.new.byId"} -> "/transactions/new"
      [] kind = "transactions.delete"                        -> "/transactions"
      [] kind = "transactions.edit"                          -> "/transactions/id/edit"
      [] kind = "transactions.view"                          -> "/transactions/id"
      [] kind = "incomes.new"                                -> "/incomes/new"
      [] kind = "incomes.delete"                             -> "/incomes"
      [] kind \in {"incomes.edit", "incomes.view"}           -> "/incomes/id/edit"
      [] kind = "categories.delete"                          -> "/categories"
      [] kind = "categories.new"                             -> "/categories/new"
      [] kind = "analytics"                                  -> "/analytics"
      [] kind = "chat"                                       -> "/api/chat"
      [] kind = "transactions"                               -> "/transactions"
      [] kind = "incomes"                                    -> "/incomes"
      [] OTHER                                               -> "/dashboard"

\* new URLSearchParams([['redirectTo', path]]).toString(): "/" is written %2F
URLSearchParams(path) ==
    "redirectTo=" \o
    (CASE path = "/budgets/new"          -> "%2Fbudgets%2Fnew"
       [] path = "/budgets"              -> "%2Fbudgets"
       [] path = "/transactions/new"     -> "%2Ftransactions%2Fnew"
       [] path = "/transactions"         -> "%2Ftransactions"
       [] path = "/transactions/id/edit" -> "%2Ftransactions%2Fid%2Fedit"
       [] path = "/transactions/id"      -> "%2Ftransactions%2Fid"
       [] path = "/incomes/new"          -> "%2Fincomes%2Fnew"
       [] path = "/incomes"              -> "%2Fincomes"
       [] path = "/incomes/id/edit"      -> "%2Fincomes%2Fid%2Fedit"
       [] path = "/categories"           -> "%2Fcategories"
       [] path = "/categories/new"       -> "%2Fcategories%2Fnew"
       [] path = "/analytics"            -> "%2Fanalytics"
       [] path = "/api/chat"             -> "%2Fapi%2Fchat"
       [] OTHER                          -> "%2Fdashboard")

\* throw redirect(`/login?${searchParams}`)
RedirectLogin(kind) == "redirect:/login?" \o URLSearchParams(pathname(kind))

\* (mutant) the session is not checked
requireUserId_Open(session) == TRUE

\* session.server requireUserId: the session's user id, or a redirect to /login
requireUserId(session) == session # NoId

\* ---------------------------------------------------------------- database
\* (mutant) the index is missing: every row is accepted
BudgetUniqueOk_NoIndex(rows, row) == TRUE

\* unique index Budget_userId_month_year_key
BudgetUniqueOk(rows, row) ==
    ~ \E b \in rows : b.userId = row.userId /\ b.month = row.month /\ b.year = row.year

\* prisma.budget.findUnique({ where: { userId_month_year } })
BudgetFindUnique(userId, month, year) ==
    {b \in budgets : b.userId = userId /\ b.month = month /\ b.year = year}

\* (mutant) the ownership filter is missing: where: { id }
FindFirst_AnyOwner(rows, id, userId) == {r \in rows : r.id = id}

\* prisma.<table>.findFirst({ where: { id, userId } })
FindFirst(rows, id, userId) == {r \in rows : r.id = id /\ r.userId = userId}

\* <table>_userId_fkey: a row can be inserted only for a stored user
UserFkOk(userId) == \E u \in users : u.id = userId

\* prisma.budget.create: the row is stored unless the unique index rejects it
BudgetCreate(row) ==
    /\ BudgetUniqueOk(budgets, row)
    /\ budgets' = budgets \cup {row}
    /\ nextId' = nextId + 1

\* (mutant) an update that writes the month as well
BudgetUpdate_WritesMonth(id, amount) ==
    budgets' = {IF b.id = id THEN [b EXCEPT !.amount = amount, !.month = 1] ELSE b :
                   b \in budgets}

\* prisma.budget.update({ where: { id }, data: { amount } })
BudgetUpdate(id, amount) ==
    budgets' = {IF b.id = id THEN [b EXCEPT !.amount = amount] ELSE b : b \in budgets}

\* prisma.budget.delete({ where: { id } })
BudgetDelete(id) ==
    budgets' = {b \in budgets : b.id # id}

\* --------------------------------------------------------- budget handlers
\* what the budget forms may carry: one form per branch of the validation
BudgetForm(budgetType, amount, percentage, totalIncome, month, year) ==
    [budgetType |-> budgetType, amount |-> amount, percentage |-> percentage,
     totalIncome |-> totalIncome, month |-> month, year |-> year]

\* the forms of the concurrent budget requests
BudgetForms ==
    {BudgetForm("amount", "100", NULL, "2000", "3", "2025"),
     BudgetForm("amount", "abc", NULL, "2000", "3", "2025"),
     BudgetForm("percentage", NULL, "25", "2000", "3", "2025"),
     BudgetForm("percentage", NULL, "150", "2000", "3", "2025"),
     BudgetForm("percentage", NULL, "25", "0", "3", "2025"),
     BudgetForm("amount", "100", NULL, "2000", NULL, "2025")}

Sessions == {NoId, 1, 2}

\* the ids a request may name: no id, a stored row's id, an id no row has
NoSuchId == MaxId + 1
IdsOf(rows) == {NoId, NoSuchId} \cup {r.id : r \in rows}

\* (mutant) the percentage has no lower limit
PercentageInvalid_NoLower(percentage) ==
    percentage = NULL \/ parseFloat(percentage).nan \/ parseFloat(percentage).v > 10000

\* typeof amount !== 'string' || isNaN(parseFloat(amount)) || parseFloat(amount) <= 0
AmountInvalid(amount) ==
    amount = NULL \/ parseFloat(amount).nan \/ parseFloat(amount).v <= 0

\* the same test on the percentage, with || parseFloat(percentage) > 100
PercentageInvalid(percentage) ==
    \/ percentage = NULL
    \/ parseFloat(percentage).nan
    \/ parseFloat(percentage).v <= 0
    \/ parseFloat(percentage).v > 10000

\* (mutant) the ceiling is cut to whole units
Ceiling_Whole(income, percentage) == ((income * percentage) \div 1000000) * 100

\* (income * parseFloat(percentage)) / 100, on hundredths
Ceiling(income, percentage) == (income * percentage) \div 10000

\* the validated budget ceiling: [err: the field in error or "", v: finalAmount]
\* (percentages are in hundredths: 100 is 10000)
DeriveAmount(budgetType, amount, percentage, totalIncome, elseErr) ==
    IF budgetType = "amount" THEN
        IF AmountInvalid(amount)
        THEN [err |-> "amount", v |-> Num(0)]
        ELSE [err |-> "", v |-> parseFloat(amount)]
    ELSE IF budgetType = "percentage" THEN
        IF PercentageInvalid(percentage)
        THEN [err |-> "percentage", v |-> Num(0)]
        ELSE LET income == parseFloat(totalIncome) IN
             IF ~income.nan /\ income.v <= 0
             THEN [err |-> "percentage", v |-> Num(0)]
             ELSE [err |-> "",
                   v |-> IF income.nan THEN NaN
                         ELSE Num(Ceiling(income.v, parseFloat(percentage).v))]
    ELSE [err |-> elseErr, v |-> Num(0)]

\* budgets.new.tsx: month must parse to 1..12, year must parse
MonthYearOk(month, year) ==
    /\ month # NULL /\ ~parseInt(month).nan
    /\ parseInt(month).v >= 1 /\ parseInt(month).v <= 12
    /\ year # NULL /\ ~parseInt(year).nan

\* budgets.new.tsx action, up to and including findUnique
BudgetsNewCheck(p, forms) ==
    /\ req[p].pc = "idle"
    /\ \E session \in Sessions, f \in forms :
        LET r == [Idle EXCEPT !.kind = "budgets.new", !.session = session]
            month == f.month
            year == f.year
            d == DeriveAmount(f.budgetType, f.amount, f.percentage, f.totalIncome,
                              "budgetType")
        IN  req' = [req EXCEPT ![p] =
                IF ~requireUserId(session) THEN Done(r, RedirectLogin(r.kind))
                ELSE IF d.err # "" \/ ~MonthYearOk(month, year)
                THEN Done([r EXCEPT !.budget = f], "errors:validation")
                ELSE IF BudgetFindUnique(session, parseInt(month).v, parseInt(year).v) # {}
                THEN Done([r EXCEPT !.month = parseInt(month).v, !.year = parseInt(year).v,
                                    !.budget = f],
                          "errors.amount:Budget already exists for this month")
                ELSE [r EXCEPT !.pc = "create", !.amount = d.v, !.budget = f,
                               !.month = parseInt(month).v, !.year = parseInt(year).v]]
    /\ UNCHANGED <<users, categories, transactions, incomes, budgets, nextId>>

\* budgets.new.tsx action, prisma.budget.create and the redirect
BudgetsNewCreate(p) ==
    /\ req[p].pc = "create" /\ req[p].kind = "budgets.new"
    /\ nextId <= MaxId
    /\ LET r == req[p]
           row == [id |-> nextId, amount |-> r.amount.v, month |-> r.month,
                   year |-> r.year, userId |-> r.session]
       IN  \/ /\ ~r.amount.nan /\ UserFkOk(r.session)
              /\ BudgetCreate(row)
              /\ req' = [req EXCEPT ![p] = Done(r, "redirect:/budgets")]
           \/ /\ r.amount.nan \/ ~BudgetUniqueOk(budgets, row) \/ ~UserFkOk(r.session)
              /\ req' = [req EXCEPT ![p] = Done(r, "throw:prisma.budget.create")]
              /\ UNCHANGED <<budgets, nextId>>
    /\ UNCHANGED <<users, categories, transactions, incomes>>

\* budgets.tsx action, intent save-budget: validation, then update or create
SaveBudget(p, forms) ==
    /\ req[p].pc = "idle"
    /\ \E session \in Sessions, f \in forms, budgetId \in IdsOf(budgets) :
        LET r == [Idle EXCEPT !.kind = "save-budget", !.session = session]
            d == DeriveAmount(f.budgetType, f.amount, f.percentage, f.totalIncome, "")
            m == IF f.month = NULL THEN NaN ELSE parseInt(f.month)
            y == IF f.year = NULL THEN NaN ELSE parseInt(f.year)
            row == [id |-> nextId, amount |-> d.v.v, month |-> m.v, year |-> y.v,
                    userId |-> session]
            rc == [r EXCEPT !.id = budgetId, !.month = m.v, !.year = y.v, !.budget = f]
        IN  IF ~requireUserId(session) THEN
                /\ req' = [req EXCEPT ![p] = Done(r, RedirectLogin(r.kind))]
                /\ UNCHANGED <<budgets, nextId>>
            ELSE IF d.err # "" THEN
                /\ req' = [req EXCEPT ![p] = Done([r EXCEPT !.budget = f], "errors:validation")]
                /\ UNCHANGED <<budgets, nextId>>
            ELSE IF budgetId # NoId THEN
                IF d.v.nan \/ ~ \E b \in budgets : b.id = budgetId THEN
                    /\ req' = [req EXCEPT ![p] = Done(rc, "throw:prisma.budget.update")]
                    /\ UNCHANGED <<budgets, nextId>>
                ELSE
                    /\ BudgetUpdate(budgetId, d.v.v)
                    /\ req' = [req EXCEPT ![p] = Done(rc, "success:Budget updated successfully")]
                    /\ UNCHANGED nextId
            ELSE IF \/ d.v.nan \/ m.nan \/ y.nan
                    \/ ~BudgetUniqueOk(budgets, row) \/ ~UserFkOk(session) THEN
                /\ req' = [req EXCEPT ![p] = Done(rc, "throw:prisma.budget.create")]
                /\ UNCHANGED <<budgets, nextId>>
            ELSE
                /\ nextId <= MaxId
                /\ BudgetCreate(row)
                /\ req' = [req EXCEPT ![p] = Done(rc, "success:Budget created successfully")]
    /\ UNCHANGED <<users, categories, transactions, incomes>>

\* budgets page action, intent delete: the ownership check (findFirst)
DeleteBudgetCheck(p) ==
    /\ req[p].pc = "idle"
    /\ \E session \in Sessions, budgetId \in IdsOf(budgets) :
        LET r == [Idle EXCEPT !.kind = "delete-budget", !.session = session]
            rc == [r EXCEPT !.id = budgetId]
        IN  req' = [req EXCEPT ![p] =
                IF ~requireUserId(session) THEN Done(r, RedirectLogin(r.kind))
                ELSE IF budgetId = NoId THEN Done(r, "error:Invalid action")
                ELSE IF FindFirst(budgets, budgetId, session) = {}
                THEN Done(rc, "error:Budget not found")
                ELSE [rc EXCEPT !.pc = "delete"]]
    /\ UNCHANGED <<users, categories, transactions, incomes, budgets, nextId>>

\* budgets page action, intent delete: prisma.budget.delete
DeleteBudgetDelete(p) ==
    /\ req[p].pc = "delete" /\ req[p].kind = "delete-budget"
    /\ IF \E b \in budgets : b.id = req[p].id THEN
           /\ BudgetDelete(req[p].id)
           /\ req' = [req EXCEPT ![p] = Done(req[p], "success:Budget deleted")]
       ELSE
           /\ req' = [req EXCEPT ![p] = Done(req[p], "throw:prisma.budget.delete")]
           /\ UNCHANGED budgets
    /\ UNCHANGED <<users, categories, transactions, incomes, nextId>>

\* the response leaves the server; the process takes the next request
Respond(p) ==
    /\ req[p].pc = "done"
    /\ req' = [req EXCEPT ![p] = Idle]
    /\ UNCHANGED <<users, categories, transactions, incomes, budgets, nextId>>

\* two signed-up users, no records yet
InitBudget ==
    /\ users = {[id |-> 1, email |-> "a@x.io", password |-> ""],
                [id |-> 2, email |-> "b@x.io", password |-> ""]}
    /\ categories = {}
    /\ transactions = {}
    /\ incomes = {}
    /\ budgets = {}
    /\ nextId = 3
    /\ req = [p \in Procs |-> Idle]

NextBudget ==
    \E p \in Procs :
        \/ BudgetsNewCheck(p, BudgetForms)
        \/ BudgetsNewCreate(p)
        \/ SaveBudget(p, BudgetForms)
        \/ DeleteBudgetCheck(p)
        \/ DeleteBudgetDelete(p)
        \/ Respond(p)

SpecBudget == InitBudget /\ [][NextBudget]_vars

\* ------------------------------------------------------- budget properties
\* a request of process p returns (or throws) in this step
Returns(p) == req[p].pc # "done" /\ req'[p].pc = "done"

BudgetExistsError == "errors.amount:Budget already exists for this month"

\* a finished request that asked to create the budget of (session, month, year)
\* and got as far as the database
CreatesBudget(r) ==
    /\ r.pc = "done" /\ r.session # NoId /\ r.id = NoId /\ r.month # 0 /\ r.year # 0
    /\ r.kind \in {"budgets.new", "save-budget"}
    /\ r.result # "errors:validation"

\* C1: in every reachable state there is at most one Budget row for each
\* (userId, month, year), whatever budget requests ran and however they
\* interleaved.
C1_OneBudgetPerUserMonthYear ==
    \A a, b \in budgets :
        (a.userId = b.userId /\ a.month = b.month /\ a.year = b.year) => a = b

\* C1 witness: a create was refused because the month's budget is already stored
C1_Witness ==
    \E p \in Procs :
        /\ CreatesBudget(req[p])
        /\ req[p].result = "throw:prisma.budget.create"
        /\ BudgetFindUnique(req[p].session, req[p].month, req[p].year) # {}

\* C2: of two concurrent budgets/new requests for the same (user, month, year)
\* exactly one succeeds and the other ends with the "budget already exists"
\* error returned to the form, never with an exception escaping the action:
\* beside a budgets/new request that stored the row, the other one either
\* stored it too (after a delete) or returned that error.
C2_RaceLoserGetsExistsError ==
    \A p, q \in Procs :
        (/\ p # q
         /\ req[p].kind = "budgets.new" /\ req[p].pc = "done"
         /\ req[q].kind = "budgets.new" /\ req[q].pc = "done"
         /\ req[p].session = req[q].session
         /\ req[p].month = req[q].month /\ req[p].year = req[q].year
         /\ req[q].result = "redirect:/budgets")
        => req[p].result \in {"redirect:/budgets", BudgetExistsError}

\* C3: a budget-creation request made when the month's budget is already
\* stored returns an error value, does not throw, and leaves the stored row
\* unchanged.
C3_CreateOnExistingReturnsError ==
    [][\A p \in Procs :
        (/\ Returns(p)
         /\ req[p].pc = "idle"
         /\ CreatesBudget(req'[p])
         /\ BudgetFindUnique(req'[p].session, req'[p].month, req'[p].year) # {})
        => (/\ req'[p].result \in {BudgetExistsError, "errors:Budget already exists"}
            /\ budgets' = budgets)]_vars

\* C8: a save-budget or delete request that names a budget of another user
\* leaves that budget unchanged and yields the generic "not found" result.
C8_BudgetChangedOnlyByOwner ==
    [][\A p \in Procs : \A b \in budgets :
        (/\ Returns(p)
         /\ req'[p].kind \in {"save-budget", "delete-budget"}
         /\ req'[p].session # NoId
         /\ req'[p].id = b.id
         /\ b.userId # req'[p].session)
        => (b \in budgets' /\ req'[p].result = "error:Budget not found")]_vars

\* ------------------------------------------------------------ credentials
\* constants.ts DEFAULT_CATEGORIES
DEFAULT_CATEGORIES ==
    <<[name |-> "Food & Dining", color |-> "#ef4444", icon |-> "Utensils"],
      [name |-> "Housing", color |-> "#3b82f6", icon |-> "Home"],
      [name |-> "Transportation", color |-> "#f59e0b", icon |-> "Car"],
      [name |-> "Entertainment", color |-> "#a855f7", icon |-> "Film"],
      [name |-> "Shopping", color |-> "#ec4899", icon |-> "ShoppingBag"],
      [name |-> "Health", color |-> "#06b6d4", icon |-> "Heart"],
      [name |-> "Travel", color |-> "#f97316", icon |-> "Plane"],
      [name |-> "Education", color |-> "#8b5cf6", icon |-> "BookOpen"],
      [name |-> "Personal Care", color |-> "#f43f5e", icon |-> "User"]>>

\* the rows createMany stores for a user: DEFAULT_CATEGORIES.map(cat => ...),
\* each with a fresh id
SeedRows(userId) ==
    {[id |-> userId * 10 + k, name |-> DEFAULT_CATEGORIES[k].name,
      color |-> DEFAULT_CATEGORIES[k].color, icon |-> DEFAULT_CATEGORIES[k].icon,
      userId |-> userId] : k \in DOMAIN DEFAULT_CATEGORIES}

\* bcrypt.hash(password, SALT_ROUNDS): never the empty string
hashPassword(password) == "$2a$10$" \o password

\* unique index User_email_key
UserEmailUniqueOk(rows, email) == ~ \E u \in rows : u.email = email

\* prisma.user.findUnique({ where: { email } })
UserFindUnique(email) == {u \in users : u.email = email}

\* a transaction of another request holds an uncommitted User row with this
\* email: an insert of the same email waits for it to commit or roll back
EmailPending(p, email) ==
    \E q \in Procs \ {p} : req[q].pc = "tx.seed" /\ req[q].email = email

\* (mutant) no transaction: the row is written straight to the table
TxUserCreate_NoTransaction(row) == users' = users \cup {row}

\* tx.user.create inside prisma.$transaction: the row is written in the
\* transaction and is invisible to every other request until the commit
TxUserCreate(row) == UNCHANGED users

\* the commit of prisma.$transaction: the User row and the rows of
\* tx.category.createMany become visible together
TxCommit(row, seeded) ==
    /\ users' = users \cup {row}
    /\ categories' = categories \cup seeded

\* the rollback of prisma.$transaction when the callback throws
TxRollback == UNCHANGED <<users, categories>>

\* what the signup and login forms may carry
Emails == {"a@x.io", "b@x.io"}
EmailStrs == Emails \cup {"ab", NULL}
PasswordStrs == {"Str0ng!pw", "abc", NULL}

\* jwtDecode(credential).email of the credentials a client may post; the
\* decoding throws on a token that is not a JWT and reads the payload of any
\* token that is one, whoever signed it
Credentials == {"jwt:a@x.io", "jwt:b@x.io", "garbage", NULL}
jwtDecode(credential) ==
    CASE credential = "jwt:a@x.io" -> "a@x.io"
      [] credential = "forged:a@x.io" -> "a@x.io"
      [] credential = "jwt:b@x.io" -> "b@x.io"
      [] OTHER -> "throw"

\* signup.tsx: email.length >= 3, password.length >= 6
SignupFormOk(email, password) ==
    IF email = NULL \/ Len(email) < 3 THEN "errors.email:Email is invalid"
    ELSE IF password = NULL \/ Len(password) < 6 THEN "errors.password:Password is too short"
    ELSE ""

EmailExistsError == "errors.email:A user already exists with this email"

\* signup action up to and including getUserByEmail; kind "signup" goes on
\* with the createUser that seeds categories in a transaction, kind
\* "signup.noseed" with the createUser that only inserts the User row
SignupCheck(p) ==
    /\ req[p].pc = "idle"
    /\ \E email \in EmailStrs, password \in PasswordStrs,
          kind \in {"signup", "signup.noseed"} :
        LET r == [Idle EXCEPT !.kind = kind]
            re == [r EXCEPT !.email = email]
        IN  req' = [req EXCEPT ![p] =
                IF SignupFormOk(email, password) # ""
                THEN Done(r, SignupFormOk(email, password))
                ELSE IF UserFindUnique(email) # {} THEN Done(re, EmailExistsError)
                ELSE [re EXCEPT !.pc = "createUser", !.password = password]]
    /\ UNCHANGED <<users, categories, transactions, incomes, budgets, nextId>>

\* createUser: findUnique, throw UserExistsError, hashPassword
CreateUserFind(p) ==
    /\ req[p].pc = "createUser"
    /\ req' = [req EXCEPT ![p] =
            IF UserFindUnique(req[p].email) # {}
            THEN Done(req[p], "throw:UserExistsError")
            ELSE [req[p] EXCEPT !.pc = IF req[p].kind = "signup" THEN "tx.user" ELSE "insert",
                                !.password = hashPassword(req[p].password)]]
    /\ UNCHANGED <<users, categories, transactions, incomes, budgets, nextId>>

\* createUser (auth.server.ts): tx.user.create inside the transaction
CreateUserTxUser(p) ==
    /\ req[p].pc = "tx.user"
    /\ ~EmailPending(p, req[p].email)
    /\ IF UserEmailUniqueOk(users, req[p].email) THEN
           /\ nextId <= MaxId
           /\ TxUserCreate([id |-> nextId, email |-> req[p].email,
                            password |-> req[p].password])
           /\ nextId' = nextId + 1
           /\ req' = [req EXCEPT ![p] = [req[p] EXCEPT !.pc = "tx.seed", !.id = nextId]]
       ELSE
           /\ req' = [req EXCEPT ![p] = Done(req[p], "throw:prisma.user.create")]
           /\ UNCHANGED <<users, nextId>>
    /\ UNCHANGED <<categories, transactions, incomes, budgets>>

\* createUser (auth.server.ts): tx.category.createMany, then the commit and
\* createUserSession; or the seeding fails and the transaction rolls back
CreateUserTxSeed(p) ==
    /\ req[p].pc = "tx.seed"
    /\ LET row == [id |-> req[p].id, email |-> req[p].email, password |-> req[p].password]
       IN  \/ /\ TxCommit(row, SeedRows(row.id))
              /\ req' = [req EXCEPT ![p] = Done(req[p], "session")]
           \/ /\ TxRollback
              /\ req' = [req EXCEPT ![p] =
                            Done(req[p], "throw:prisma.category.createMany")]
    /\ UNCHANGED <<transactions, incomes, budgets, nextId>>

\* createUser (the revision without seeding): prisma.user.create, then
\* createUserSession
CreateUserInsert(p) ==
    /\ req[p].pc = "insert"
    /\ ~EmailPending(p, req[p].email)
    /\ IF UserEmailUniqueOk(users, req[p].email) THEN
           /\ nextId <= MaxId
           /\ users' = users \cup {[id |-> nextId, email |-> req[p].email,
                                    password |-> req[p].password]}
           /\ nextId' = nextId + 1
           /\ req' = [req EXCEPT ![p] = Done([req[p] EXCEPT !.id = nextId], "session")]
       ELSE
           /\ req' = [req EXCEPT ![p] = Done(req[p], "throw:prisma.user.create")]
           /\ UNCHANGED <<users, nextId>>
    /\ UNCHANGED <<categories, transactions, incomes, budgets>>

\* login and signup actions, intent google: jwtDecode and findUnique; a user
\* that exists gets a session
GoogleFindWith(p, credentials) ==
    /\ req[p].pc = "idle"
    /\ \E credential \in credentials, kind \in {"google.login", "google.signup"} :
        LET r == [Idle EXCEPT !.kind = kind]
            email == jwtDecode(credential)
            re == [r EXCEPT !.email = email, !.credential = credential]
            found == UserFindUnique(email)
        IN  req' = [req EXCEPT ![p] =
                IF credential = NULL THEN Done(r, "errors.email:Invalid Google credential")
                ELSE IF email = "throw" THEN Done(r, "errors.email:Failed with Google")
                ELSE IF found # {}
                THEN Done([re EXCEPT !.id = (CHOOSE u \in found : TRUE).id], "session")
                ELSE [re EXCEPT !.pc = "google.create"]]
    /\ UNCHANGED <<users, categories, transactions, incomes, budgets, nextId>>

GoogleFind(p) == GoogleFindWith(p, Credentials)

\* login and signup actions, intent google: prisma.user.create with an empty
\* password, then createUserSession; a rejected insert is caught
GoogleCreate(p) ==
    /\ req[p].pc = "google.create"
    /\ ~EmailPending(p, req[p].email)
    /\ IF UserEmailUniqueOk(users, req[p].email) THEN
           /\ nextId <= MaxId
           /\ users' = users \cup {[id |-> nextId, email |-> req[p].email, password |-> ""]}
           /\ nextId' = nextId + 1
           /\ req' = [req EXCEPT ![p] = Done([req[p] EXCEPT !.id = nextId], "session")]
       ELSE
           /\ req' = [req EXCEPT ![p] = Done(req[p], "errors.email:Failed with Google")]
           /\ UNCHANGED <<users, nextId>>
    /\ UNCHANGED <<categories, transactions, incomes, budgets>>

\* an empty database
InitAuth ==
    /\ users = {}
    /\ categories = {}
    /\ transactions = {}
    /\ incomes = {}
    /\ budgets = {}
    /\ nextId = 1
    /\ req = [p \in Procs |-> Idle]

NextAuth ==
    \E p \in Procs :
        \/ SignupCheck(p)
        \/ CreateUserFind(p)
        \/ CreateUserTxUser(p)
        \/ CreateUserTxSeed(p)
        \/ CreateUserInsert(p)
        \/ GoogleFind(p)
        \/ GoogleCreate(p)
        \/ Respond(p)

SpecAuth == InitAuth /\ [][NextAuth]_vars

C5_EveryNewUserIsSeeded ==
    [][\A u \in users' \ users : SeedRows(u.id) \subseteq categories']_vars

\* C6: a signup for an email that is already registered (also the loser of
\* two concurrent signups) ends with the field-level "already exists" email
\* error, never with an exception; one User row exists for the email.  Stated
\* for a finished signup whose email belongs to the user that another signup
\* request created.
C6_DuplicateSignupGetsFieldError ==
    /\ \A a, b \in users : a.email = b.email => a = b
    /\ \A p \in Procs :
        (/\ req[p].pc = "done"
         /\ req[p].kind \in {"signup", "signup.noseed"}
         /\ \E u \in users, q \in Procs \ {p} :
                /\ u.email = req[p].email
                /\ req[q].pc = "done" /\ req[q].id = u.id
                /\ req[q].kind \in {"signup", "signup.noseed"})
        => req[p].result = EmailExistsError

\* ------------------------------------------------- transactions and incomes
\* new Date(s) on the date strings the forms carry: a calendar day, or an
\* Invalid Date
ParseDate(s) ==
    CASE s = "2025-06-15" -> [valid |-> TRUE, y |-> 2025, m |-> 6, d |-> 15]
      [] s = "2025-07-01" -> [valid |-> TRUE, y |-> 2025, m |-> 7, d |-> 1]
      [] OTHER            -> [valid |-> FALSE, y |-> 0, m |-> 0, d |-> 0]

\* DEFAULT_CATEGORIES.some(c => c.name === category)
IsDefaultCategory(name) ==
    \E k \in DOMAIN DEFAULT_CATEGORIES : DEFAULT_CATEGORIES[k].name = name

\* the transaction form
TxForm(amount, category, description, date, isRecurring, frequency) ==
    [amount |-> amount, category |-> category, description |-> description,
     date |-> date, isRecurring |-> isRecurring, frequency |-> frequency]

TxCreateForms ==
    {TxForm("100", "Food & Dining", "lunch", "2025-06-15", NULL, NULL),
     TxForm("abc", "Food & Dining", "", "2025-06-15", NULL, NULL),
     TxForm("100", NULL, "", "2025-06-15", NULL, NULL),
     TxForm("100", "Gifts", "", "2025-06-15", NULL, NULL),
     TxForm("100", "Housing", "", "", NULL, NULL),
     TxForm("100", "Housing", "", "2025-06-15", "on", NULL)}

TxUpdateForms ==
    {TxForm("250", "Housing", "", "2025-07-01", "on", "monthly"),
     TxForm("0", "Housing", "", "2025-07-01", NULL, NULL),
     TxForm("250", "Gifts", "", "2025-07-01", NULL, NULL),
     TxForm("250", "Housing", "", "garbage", NULL, NULL)}

\* the validation of the transaction forms: the error result, or ""
TxFormError(f) ==
    IF \/ f.amount = NULL \/ parseFloat(f.amount).nan \/ parseFloat(f.amount).v <= 0
       \/ f.category = NULL \/ f.category = ""
       \/ f.date = NULL \/ f.date = ""
       \/ (f.isRecurring = "on" /\ (f.frequency = NULL \/ f.frequency = ""))
    THEN "errors:validation"
    ELSE IF ~IsDefaultCategory(f.category) THEN "errors.category:Invalid category"
    ELSE ""

\* the data object of prisma.transaction.create / update
TxData(f) ==
    [amount |-> parseFloat(f.amount).v,
     category |-> f.category,
     description |-> IF f.description = NULL \/ f.description = "" THEN NULL
                     ELSE f.description,
     date |-> ParseDate(f.date),
     isRecurring |-> f.isRecurring = "on",
     frequency |-> IF f.isRecurring = "on" THEN f.frequency ELSE NULL]

TxRow(id, userId, categoryId, data) ==
    [id |-> id, userId |-> userId, categoryId |-> categoryId, amount |-> data.amount,
     category |-> data.category, description |-> data.description, date |-> data.date,
     isRecurring |-> data.isRecurring, frequency |-> data.frequency]

\* the income form
IncomeForm(amount, source, date) == [amount |-> amount, source |-> source, date |-> date]

IncomeCreateForms ==
    {IncomeForm("2000", "salary", "2025-06-15"),
     IncomeForm("-5", "salary", "2025-06-15"),
     IncomeForm("2000", "", NULL)}

IncomeUpdateForms ==
    {IncomeForm("150", "", "2025-07-01"),
     IncomeForm(NULL, "", "2025-07-01"),
     IncomeForm("150", "", "garbage")}

IncomeFormError(f) ==
    IF \/ f.amount = NULL \/ parseFloat(f.amount).nan \/ parseFloat(f.amount).v <= 0
       \/ f.date = NULL \/ f.date = ""
    THEN "errors:validation"
    ELSE ""

IncomeRow(id, userId, f) ==
    [id |-> id, userId |-> userId, amount |-> parseFloat(f.amount).v,
     source |-> IF f.source = NULL \/ f.source = "" THEN NULL ELSE f.source,
     date |-> ParseDate(f.date)]

\* the record requests that look a row up by id: deletes from the lists,
\* the edit actions (update or delete) and the view / edit loaders
TxLookups == {"transactions.delete", "transactions.edit", "transactions.view"}
IncomeLookups == {"incomes.delete", "incomes.edit", "incomes.view"}
IsLoader(kind) == kind \in {"transactions.view", "incomes.view"}
RowsOf(kind) == IF kind \in TxLookups THEN transactions ELSE incomes

\* what a lookup answers when findFirst gives null: the actions return an
\* error value, the loaders throw a 404 Response
NotFound(kind) ==
    IF kind \in TxLookups
    THEN IF IsLoader(kind) THEN "throw:404 Transaction not found"
         ELSE "error:Transaction not found"
    ELSE IF IsLoader(kind) THEN "throw:404 Income not found"
         ELSE "error:Income not found"

\* what a record request answers when it names no id
MissingId(kind) ==
    IF IsLoader(kind) THEN "throw:400 ID required"
    ELSE IF kind \in {"transactions.delete", "incomes.delete"} THEN "error:Invalid action"
    ELSE "error:ID required"

\* what a record request answers after its delete
Deleted(kind) ==
    CASE kind = "transactions.delete" -> "success:Transaction deleted"
      [] kind = "incomes.delete"      -> "success:Income deleted"
      [] kind = "transactions.edit"   -> "redirect:/transactions"
      [] OTHER                        -> "redirect:/incomes"

\* (mutant) a row of another user is answered differently from a missing row
LookupResult_Forbidden(kind, rows, id, userId) ==
    IF FindFirst(rows, id, userId) # {} THEN "found"
    ELSE IF \E r \in rows : r.id = id THEN "error:Forbidden"
    ELSE NotFound(kind)

\* the outcome of the ownership lookup of a record request
LookupResult(kind, rows, id, userId) ==
    IF FindFirst(rows, id, userId) = {} THEN NotFound(kind) ELSE "found"

\* transactions/new action (categories by name): validation and create, for
\* a request that carries one of the given forms
TransactionNewWith(p, forms) ==
    /\ req[p].pc = "idle"
    /\ \E session \in Sessions, f \in forms :
        LET r == [Idle EXCEPT !.kind = "transactions.new", !.session = session]
        IN  IF ~requireUserId(session) THEN
                /\ req' = [req EXCEPT ![p] = Done(r, RedirectLogin(r.kind))]
                /\ UNCHANGED <<transactions, nextId>>
            ELSE IF TxFormError(f) # "" THEN
                /\ req' = [req EXCEPT ![p] = Done(r, TxFormError(f))]
                /\ UNCHANGED <<transactions, nextId>>
            ELSE IF ~ParseDate(f.date).valid \/ ~UserFkOk(session) THEN
                /\ req' = [req EXCEPT ![p] = Done(r, "throw:prisma.transaction.create")]
                /\ UNCHANGED <<transactions, nextId>>
            ELSE
                /\ nextId <= MaxId
                /\ transactions' = transactions \cup {TxRow(nextId, session, NoId, TxData(f))}
                /\ nextId' = nextId + 1
                /\ req' = [req EXCEPT ![p] =
                              Done([r EXCEPT !.id = nextId], "redirect:/transactions")]
    /\ UNCHANGED <<users, categories, incomes, budgets>>

TransactionNew(p) == TransactionNewWith(p, TxCreateForms)

\* (mutant) an incomes/new action that rescales the budget of the income's
\* month to the new income total
IncomeNew_Recompute(p) ==
    /\ req[p].pc = "idle"
    /\ \E session \in Sessions \ {NoId}, f \in IncomeCreateForms :
        LET r == [Idle EXCEPT !.kind = "incomes.new", !.session = session, !.id = nextId]
            row == IncomeRow(nextId, session, f)
        IN  /\ IncomeFormError(f) = "" /\ ParseDate(f.date).valid /\ UserFkOk(session)
            /\ nextId <= MaxId
            /\ incomes' = incomes \cup {row}
            /\ nextId' = nextId + 1
            /\ budgets' = {IF b.userId = session /\ b.month = row.date.m /\ b.year = row.date.y
                           THEN [b EXCEPT !.amount = b.amount + row.amount \div 4]
                           ELSE b : b \in budgets}
            /\ req' = [req EXCEPT ![p] = Done(r, "redirect:/incomes")]
    /\ UNCHANGED <<users, categories, transactions>>

\* incomes/new action: validation and create
IncomeNew(p) ==
    /\ req[p].pc = "idle"
    /\ \E session \in Sessions, f \in IncomeCreateForms :
        LET r == [Idle EXCEPT !.kind = "incomes.new", !.session = session]
        IN  IF ~requireUserId(session) THEN
                /\ req' = [req EXCEPT ![p] = Done(r, RedirectLogin(r.kind))]
                /\ UNCHANGED <<incomes, nextId>>
            ELSE IF IncomeFormError(f) # "" THEN
                /\ req' = [req EXCEPT ![p] = Done(r, IncomeFormError(f))]
                /\ UNCHANGED <<incomes, nextId>>
            ELSE IF ~ParseDate(f.date).valid \/ ~UserFkOk(session) THEN
                /\ req' = [req EXCEPT ![p] = Done(r, "throw:prisma.income.create")]
                /\ UNCHANGED <<incomes, nextId>>
            ELSE
                /\ nextId <= MaxId
                /\ incomes' = incomes \cup {IncomeRow(nextId, session, f)}
                /\ nextId' = nextId + 1
                /\ req' = [req EXCEPT ![p] =
                              Done([r EXCEPT !.id = nextId], "redirect:/incomes")]
    /\ UNCHANGED <<users, categories, transactions, budgets>>

\* a record request up to and including its findFirst({ where: { id, userId } })
RecordFind(p) ==
    /\ req[p].pc = "idle"
    /\ \E session \in Sessions, kind \in TxLookups \cup IncomeLookups :
       \E id \in IdsOf(RowsOf(kind)) :
        LET r == [Idle EXCEPT !.kind = kind, !.session = session]
            rc == [r EXCEPT !.id = id]
            found == LookupResult(kind, RowsOf(kind), id, session)
        IN  req' = [req EXCEPT ![p] =
                IF ~requireUserId(session) THEN Done(r, RedirectLogin(r.kind))
                ELSE IF id = NoId THEN Done(r, MissingId(kind))
                ELSE IF found # "found" THEN Done(rc, found)
                ELSE IF IsLoader(kind) THEN Done(rc, "data")
                ELSE [rc EXCEPT !.pc = "mutate"]]
    /\ UNCHANGED <<users, categories, transactions, incomes, budgets, nextId>>

\* prisma.<table>.delete({ where: { id } }) of the list and edit actions
RecordDelete(p) ==
    /\ req[p].pc = "mutate"
    /\ LET rows == RowsOf(req[p].kind)
           left == {r \in rows : r.id # req[p].id}
       IN  /\ IF req[p].kind \in TxLookups
              THEN transactions' = left /\ UNCHANGED incomes
              ELSE incomes' = left /\ UNCHANGED transactions
           /\ req' = [req EXCEPT ![p] =
                  Done(req[p], IF left = rows THEN "throw:prisma.delete"
                               ELSE Deleted(req[p].kind))]
    /\ UNCHANGED <<users, categories, budgets, nextId>>

\* transactions/:id/edit action, intent update: validation and update
TransactionUpdate(p) ==
    /\ req[p].pc = "mutate" /\ req[p].kind = "transactions.edit"
    /\ \E f \in TxUpdateForms :
        IF TxFormError(f) # "" THEN
            /\ req' = [req EXCEPT ![p] = Done(req[p], TxFormError(f))]
            /\ UNCHANGED transactions
        ELSE IF ~ParseDate(f.date).valid \/ ~ \E t \in transactions : t.id = req[p].id THEN
            /\ req' = [req EXCEPT ![p] = Done(req[p], "throw:prisma.transaction.update")]
            /\ UNCHANGED transactions
        ELSE
            /\ transactions' = {IF t.id = req[p].id
                                THEN TxRow(t.id, t.userId, t.categoryId, TxData(f))
                                ELSE t : t \in transactions}
            /\ req' = [req EXCEPT ![p] = Done(req[p], "redirect:/transactions")]
    /\ UNCHANGED <<users, categories, incomes, budgets, nextId>>

\* incomes/:id/edit action, intent update: validation and update
IncomeUpdate(p) ==
    /\ req[p].pc = "mutate" /\ req[p].kind = "incomes.edit"
    /\ \E f \in IncomeUpdateForms :
        IF IncomeFormError(f) # "" THEN
            /\ req' = [req EXCEPT ![p] = Done(req[p], IncomeFormError(f))]
            /\ UNCHANGED incomes
        ELSE IF ~ParseDate(f.date).valid \/ ~ \E i \in incomes : i.id = req[p].id THEN
            /\ req' = [req EXCEPT ![p] = Done(req[p], "throw:prisma.income.update")]
            /\ UNCHANGED incomes
        ELSE
            /\ incomes' = {IF i.id = req[p].id THEN IncomeRow(i.id, i.userId, f) ELSE i :
                              i \in incomes}
            /\ req' = [req EXCEPT ![p] = Done(req[p], "redirect:/incomes")]
    /\ UNCHANGED <<users, categories, transactions, budgets, nextId>>

NextRecords ==
    \E p \in Procs :
        \/ TransactionNew(p)
        \/ IncomeNew(p)
        \/ RecordFind(p)
        \/ RecordDelete(p)
        \/ TransactionUpdate(p)
        \/ IncomeUpdate(p)
        \/ Respond(p)

\* two signed-up users; the first has recorded one transaction
InitRecords ==
    /\ users = {[id |-> 1, email |-> "a@x.io", password |-> ""],
                [id |-> 2, email |-> "b@x.io", password |-> ""]}
    /\ categories = {}
    /\ transactions =
           {TxRow(3, 1, NoId, TxData(TxForm("100", "Food & Dining", "lunch",
                                            "2025-06-15", NULL, NULL)))}
    /\ incomes = {}
    /\ budgets = {}
    /\ nextId = 4
    /\ req = [p \in Procs |-> Idle]

SpecRecords == InitRecords /\ [][NextRecords]_vars

\* ------------------------------------------------------ record properties
\* the requests that update or delete a record
RecordMutators ==
    {"transactions.delete", "transactions.edit", "incomes.delete", "incomes.edit"}

\* C7: a Transaction or Income row is updated or deleted only by a request
\* authenticated as its owner. Every step of a request changes or removes no
\* row but the one the request names, and that row is owned by the request's
\* session user; a row a step adds is owned by the session user too. So a
\* request naming another user's row leaves it and every other row unchanged.
C7_RecordsChangedOnlyByOwner ==
    [][\A p \in Procs :
          req'[p] # req[p] =>
              /\ \A r \in (transactions \ transactions') \cup (incomes \ incomes') :
                     /\ r.userId = req[p].session
                     /\ r.id = req[p].id
                     /\ req[p].kind \in RecordMutators
              /\ \A r \in (transactions' \ transactions) \cup (incomes' \ incomes) :
                     r.userId = req'[p].session]_vars

\* a finished update/delete request of one user named a row another user
\* owns, and the row is still stored
C7_Witness ==
    \E p \in Procs :
        /\ req[p].pc = "done" /\ req[p].kind \in RecordMutators
        /\ req[p].session # NoId
        /\ \E r \in RowsOf(req[p].kind) :
               r.id = req[p].id /\ r.userId # req[p].session

\* C9: for every view, update or delete request on a Transaction or Income,
\* the response when the id exists but belongs to another user is the
\* response when no row has that id: the lookup answers the same on the
\* table and on the table without the other user's row, and a finished
\* request that named another user's row, like one that named an id no row
\* has, carries exactly the not-found response of its route.
C9_ForeignRowLooksAbsent ==
    /\ \A kind \in TxLookups \cup IncomeLookups : \A u \in users :
        \A r \in RowsOf(kind) :
            r.userId # u.id =>
                LookupResult(kind, RowsOf(kind), r.id, u.id)
                    = LookupResult(kind, RowsOf(kind) \ {r}, r.id, u.id)
    /\ \A p \in Procs :
        (/\ req[p].pc = "done" /\ req[p].kind \in TxLookups \cup IncomeLookups
         /\ req[p].session # NoId
         /\ \/ req[p].id = NoSuchId
            \/ \E r \in RowsOf(req[p].kind) :
                   r.id = req[p].id /\ r.userId # req[p].session)
        => req[p].result = NotFound(req[p].kind)

\* two finished view requests of one user got the same 404: one named a
\* stored row of another user, the other an id no row has
C9_Witness ==
    \E p, q \in Procs :
        /\ req[p].pc = "done" /\ req[q].pc = "done"
        /\ IsLoader(req[p].kind) /\ req[q].kind = req[p].kind
        /\ req[p].session # NoId /\ req[q].session = req[p].session
        /\ \E r \in RowsOf(req[p].kind) :
               r.id = req[p].id /\ r.userId # req[p].session
        /\ req[q].id = NoSuchId
        /\ req[p].result = req[q].result

\* ----------------------------------------------------------------- categories
\* the rows that reference a category: category._count.transactions / .budgets
TransactionsOf(categoryId) == {t \in transactions : t.categoryId = categoryId}
\* (a Budget row of the later schema has no categoryId column)
BudgetsOf(categoryId) ==
    {b \in budgets : "categoryId" \in DOMAIN b /\ b.categoryId = categoryId}

\* (mutant) the foreign keys are not declared
CategoryFkOk_NoConstraint(categoryId) == TRUE

\* Transaction_categoryId_fkey / Budget_categoryId_fkey ON DELETE RESTRICT:
\* the category row may go only when no row references it
CategoryFkOk(categoryId) ==
    TransactionsOf(categoryId) = {} /\ BudgetsOf(categoryId) = {}

\* the category ids the forms name: both users' "Food & Dining" and "Housing",
\* an id no category has, or none
CategoryInputs ==
    {NoId, NoSuchId} \cup
    {c.id : c \in {x \in SeedRows(1) \cup SeedRows(2) :
                      x.name \in {"Food & Dining", "Housing"}}}

\* the form of transactions/new (category by id), without the categoryId
TxByIdForms ==
    {TxForm("100", NULL, "lunch", "2025-06-15", NULL, NULL),
     TxForm("abc", NULL, "", "2025-06-15", NULL, NULL),
     TxForm("100", NULL, "", "garbage", "on", "weekly")}

TxByIdFormError(f, categoryId) ==
    IF \/ f.amount = NULL \/ parseFloat(f.amount).nan \/ parseFloat(f.amount).v <= 0
       \/ categoryId = NoId
       \/ f.date = NULL \/ f.date = ""
       \/ (f.isRecurring = "on" /\ (f.frequency = NULL \/ f.frequency = ""))
    THEN "errors:validation"
    ELSE ""

CategoryDependentsError ==
    "error:Cannot delete category with existing transactions or budgets"

\* transactions/new action (category by id) up to the category lookup
TransactionsNewCheck(p) ==
    /\ req[p].pc = "idle"
    /\ \E session \in Sessions, f \in TxByIdForms, categoryId \in CategoryInputs :
        LET r == [Idle EXCEPT !.kind = "transactions.new.byId", !.session = session]
            rc == [r EXCEPT !.id = categoryId]
        IN  req' = [req EXCEPT ![p] =
                IF ~requireUserId(session) THEN Done(r, RedirectLogin(r.kind))
                ELSE IF TxByIdFormError(f, categoryId) # ""
                     THEN Done(r, TxByIdFormError(f, categoryId))
                ELSE IF FindFirst(categories, categoryId, session) = {}
                     THEN Done(rc, "errors.categoryId:Invalid category")
                ELSE [rc EXCEPT !.pc = "create.transaction", !.form = f]]
    /\ UNCHANGED <<users, categories, transactions, incomes, budgets, nextId>>

\* transactions/new action: prisma.transaction.create
TransactionsNewCreate(p) ==
    /\ req[p].pc = "create.transaction"
    /\ IF \/ ~ParseDate(req[p].form.date).valid
          \/ ~ \E c \in categories : c.id = req[p].id
          \/ ~UserFkOk(req[p].session)
       THEN /\ req' = [req EXCEPT ![p] = Done(req[p], "throw:prisma.transaction.create")]
            /\ UNCHANGED <<transactions, nextId>>
       ELSE /\ nextId <= MaxId
            /\ transactions' = transactions \cup
                   {TxRow(nextId, req[p].session, req[p].id, TxData(req[p].form))}
            /\ nextId' = nextId + 1
            /\ req' = [req EXCEPT ![p] = Done(req[p], "redirect:/transactions")]
    /\ UNCHANGED <<users, categories, incomes, budgets>>

\* categories action, intent delete, up to the dependents check
CategoryDeleteCheck(p) ==
    /\ req[p].pc = "idle"
    /\ \E session \in Sessions, categoryId \in CategoryInputs :
        LET r == [Idle EXCEPT !.kind = "categories.delete", !.session = session]
            rc == [r EXCEPT !.id = categoryId]
        IN  req' = [req EXCEPT ![p] =
                IF ~requireUserId(session) THEN Done(r, RedirectLogin(r.kind))
                ELSE IF categoryId = NoId THEN Done(r, "error:Invalid action")
                ELSE IF FindFirst(categories, categoryId, session) = {}
                     THEN Done(rc, "error:Category not found")
                ELSE IF TransactionsOf(categoryId) # {} \/ BudgetsOf(categoryId) # {}
                     THEN Done(rc, CategoryDependentsError)
                ELSE [rc EXCEPT !.pc = "delete.category"]]
    /\ UNCHANGED <<users, categories, transactions, incomes, budgets, nextId>>

\* categories action: prisma.category.delete({ where: { id } })
CategoryDeleteDelete(p) ==
    /\ req[p].pc = "delete.category"
    /\ IF ~ \E c \in categories : c.id = req[p].id THEN
           /\ req' = [req EXCEPT ![p] = Done(req[p], "throw:prisma.category.delete:P2025")]
           /\ UNCHANGED categories
       ELSE IF ~CategoryFkOk(req[p].id) THEN
           /\ req' = [req EXCEPT ![p] = Done(req[p], "throw:prisma.category.delete:P2003")]
           /\ UNCHANGED categories
       ELSE
           /\ categories' = {c \in categories : c.id # req[p].id}
           /\ req' = [req EXCEPT ![p] = Done(req[p], "success:Category deleted successfully")]
    /\ UNCHANGED <<users, transactions, incomes, budgets, nextId>>

\* two users created by createUser, each with the default categories; the
\* first has a budget on "Housing" (the schema in which Budget carries a
\* categoryId)
InitCategory ==
    /\ users = {[id |-> 1, email |-> "a@x.io", password |-> hashPassword("Str0ng!pw")],
                [id |-> 2, email |-> "b@x.io", password |-> hashPassword("Str0ng!pw")]}
    /\ categories = SeedRows(1) \cup SeedRows(2)
    /\ transactions = {}
    /\ incomes = {}
    /\ budgets = {[id |-> 3, userId |-> 1, amount |-> 10000, month |-> 6, year |-> 2025,
                   categoryId |-> (CHOOSE c \in SeedRows(1) : c.name = "Housing").id]}
    /\ nextId = 4
    /\ req = [p \in Procs |-> Idle]

NextCategory ==
    \E p \in Procs :
        \/ TransactionsNewCheck(p)
        \/ TransactionsNewCreate(p)
        \/ CategoryDeleteCheck(p)
        \/ CategoryDeleteDelete(p)
        \/ Respond(p)

SpecCategory == InitCategory /\ [][NextCategory]_vars

toLowerCase(name) ==
    CASE name = "Pets"          -> "pets"
      [] name = "PETS"          -> "pets"
      [] name = "Food & Dining" -> "food & dining"
      [] name = "food & dining" -> "food & dining"
      [] OTHER                  -> name

\* the form of categories/new
CategoryForm(name, color, icon) == [name |-> name, color |-> color, icon |-> icon]

CategoryForms ==
    {CategoryForm("Pets", "#FF0000", "Home"),
     CategoryForm("PETS", "#ff0000", "Car"),
     CategoryForm("food & dining", "#FF0000", "Home"),
     CategoryForm("P", "#FF0000", "Home"),
     CategoryForm("Pets", "red", "Home"),
     CategoryForm("Pets", "#FF0000", "Rocket")}

\* the validation of categories/new: the error result, or ""
CategoryFormError(f) ==
    IF f.name = NULL \/ Len(f.name) < 2
        THEN "errors.name:Name must be at least 2 characters"
    ELSE IF f.color \notin {"#FF0000", "#ff0000"}
        THEN "errors.color:Invalid color format"
    ELSE IF f.icon \notin {"Utensils", "Home", "Car"}
        THEN "errors.icon:Invalid icon"
    ELSE ""

\* prisma.category.findFirst({ where: { userId, name: { equals: name,
\* mode: 'insensitive' } } })
CategoryFindByName(userId, name) ==
    {c \in categories : c.userId = userId /\ toLowerCase(c.name) = toLowerCase(name)}

CategoryNameExistsError == "errors.name:A category with this name already exists"

\* categories/new action up to the duplicate-name lookup
CategoryNewCheck(p) ==
    /\ req[p].pc = "idle"
    /\ \E session \in Sessions, f \in CategoryForms :
        LET r == [Idle EXCEPT !.kind = "categories.new", !.session = session]
        IN  req' = [req EXCEPT ![p] =
                IF ~requireUserId(session) THEN Done(r, RedirectLogin(r.kind))
                ELSE IF CategoryFormError(f) # "" THEN Done(r, CategoryFormError(f))
                ELSE IF CategoryFindByName(session, f.name) # {}
                     THEN Done(r, CategoryNameExistsError)
                ELSE [r EXCEPT !.pc = "create.category", !.form = f]]
    /\ UNCHANGED <<users, categories, transactions, incomes, budgets, nextId>>

\* categories/new action: prisma.category.create (the Category table has no
\* unique index on the name)
CategoryNewCreate(p) ==
    /\ req[p].pc = "create.category"
    /\ IF ~UserFkOk(req[p].session)
       THEN /\ req' = [req EXCEPT ![p] = Done(req[p], "throw:prisma.category.create")]
            /\ UNCHANGED <<categories, nextId>>
       ELSE /\ nextId <= MaxId
            /\ categories' = categories \cup
                   {[id |-> nextId, name |-> req[p].form.name, color |-> req[p].form.color,
                     icon |-> req[p].form.icon, userId |-> req[p].session]}
            /\ nextId' = nextId + 1
            /\ req' = [req EXCEPT ![p] = Done(req[p], "redirect:/categories")]
    /\ UNCHANGED <<users, transactions, incomes, budgets>>

\* two users created by createUser, each with the default categories
InitCategoryNew ==
    /\ users = {[id |-> 1, email |-> "a@x.io", password |-> hashPassword("Str0ng!pw")],
                [id |-> 2, email |-> "b@x.io", password |-> hashPassword("Str0ng!pw")]}
    /\ categories = SeedRows(1) \cup SeedRows(2)
    /\ transactions = {}
    /\ incomes = {}
    /\ budgets = {}
    /\ nextId = 3
    /\ req = [p \in Procs |-> Idle]

NextCategoryNew ==
    \E p \in Procs :
        \/ CategoryNewCheck(p)
        \/ CategoryNewCreate(p)
        \/ Respond(p)

SpecCategoryNew == InitCategoryNew /\ [][NextCategoryNew]_vars

\* C11: after any interleaving of category-creation requests no user has two
\* Category rows whose names are equal ignoring case.
C11_CategoryNamesUniquePerUser ==
    \A c, d \in categories :
        (c.userId = d.userId /\ toLowerCase(c.name) = toLowerCase(d.name)) => c = d

\* --------------------------------------------------------- account deletion
\* the rows of a table owned by a user
OwnedBy(rows, userId) == {r \in rows : r.userId = userId}

\* Category_userId_fkey, Transaction_userId_fkey, Income_userId_fkey
\* ON DELETE RESTRICT: the user row may go only when none of these references it
UserDeleteRestricted(userId) ==
    OwnedBy(categories, userId) \cup OwnedBy(transactions, userId)
        \cup OwnedBy(incomes, userId) # {}

\* the budget forms of the account requests
AccountBudgetForms ==
    {BudgetForm("amount", "100", NULL, "2000", "3", "2025"),
     BudgetForm("amount", "0", NULL, "2000", "3", "2025")}

\* auth.server deleteUser(userId): prisma.user.delete({ where: { id } });
\* Budget_userId_fkey is ON DELETE CASCADE
DeleteUser(p) ==
    /\ req[p].pc = "idle"
    /\ \E userId \in {1, 2} :
        LET r == [Idle EXCEPT !.kind = "deleteUser", !.session = userId, !.id = userId]
        IN  IF ~UserFkOk(userId) THEN
                /\ req' = [req EXCEPT ![p] = Done(r, "throw:prisma.user.delete:P2025")]
                /\ UNCHANGED <<users, budgets>>
            ELSE IF UserDeleteRestricted(userId) THEN
                /\ req' = [req EXCEPT ![p] = Done(r, "throw:prisma.user.delete:P2003")]
                /\ UNCHANGED <<users, budgets>>
            ELSE
                /\ users' = {u \in users : u.id # userId}
                /\ budgets' = budgets \ OwnedBy(budgets, userId)
                /\ req' = [req EXCEPT ![p] = Done(r, "deleted")]
    /\ UNCHANGED <<categories, transactions, incomes, nextId>>

NextAccount ==
    \E p \in Procs :
        \/ SaveBudget(p, AccountBudgetForms)
        \/ TransactionNew(p)
        \/ IncomeNew(p)
        \/ DeleteUser(p)
        \/ Respond(p)

\* two signed-up users without categories, no records yet
SpecAccount == InitBudget /\ [][NextAccount]_vars

\* C12: deleting the account of a stored user succeeds and removes the User
\* row with every Category, Transaction, Income and Budget row of that user;
\* no other user's row changes.
C12_DeleteUserCascades ==
    [][\A p \in Procs :
          (/\ Returns(p) /\ req'[p].kind = "deleteUser"
           /\ UserFkOk(req'[p].id))
          => /\ req'[p].result = "deleted"
             /\ \A t \in {users', categories', transactions', incomes', budgets'} :
                    \A r \in t : IF t = users' THEN r.id # req'[p].id
                                 ELSE r.userId # req'[p].id
             /\ users' = {u \in users : u.id # req'[p].id}
             /\ \A u \in users' :
                    /\ OwnedBy(categories', u.id) = OwnedBy(categories, u.id)
                    /\ OwnedBy(transactions', u.id) = OwnedBy(transactions, u.id)
                    /\ OwnedBy(incomes', u.id) = OwnedBy(incomes, u.id)
                    /\ OwnedBy(budgets', u.id) = OwnedBy(budgets, u.id)]_vars

\* -------------------------------------------------------- session boundary
\* the process that serves the requests where they are taken one at a time
Client == CHOOSE q \in Procs : TRUE

\* every protected action, one request at a time (the session check is the
\* first step of every handler, before any await on the database)
NextSession ==
    \E p \in {Client} :
        \/ BudgetsNewCheck(p, AccountBudgetForms)
        \/ BudgetsNewCreate(p)
        \/ SaveBudget(p, AccountBudgetForms)
        \/ DeleteBudgetCheck(p)
        \/ DeleteBudgetDelete(p)
        \/ TransactionNew(p)
        \/ IncomeNew(p)
        \/ RecordFind(p)
        \/ RecordDelete(p)
        \/ TransactionUpdate(p)
        \/ IncomeUpdate(p)
        \/ TransactionsNewCheck(p)
        \/ TransactionsNewCreate(p)
        \/ CategoryDeleteCheck(p)
        \/ CategoryDeleteDelete(p)
        \/ CategoryNewCheck(p)
        \/ CategoryNewCreate(p)
        \/ Respond(p)

\* one user created by createUser, with the default categories; a request
\* carries no session, this user's session, or the session of another account
InitSession ==
    /\ users = {[id |-> 1, email |-> "a@x.io", password |-> hashPassword("Str0ng!pw")]}
    /\ categories = SeedRows(1)
    /\ transactions = {}
    /\ incomes = {}
    /\ budgets = {}
    /\ nextId = 4
    /\ req = [p \in Procs |-> Idle]

SpecSession == InitSession /\ [][NextSession]_vars

\* C13: a request to a protected handler that carries no session user id is
\* answered by the redirect to /login whose redirectTo is the path of the
\* request, in the handler's first step, and no table changes; the handler
\* never gets to a step that reads or writes the database.
C13_NoSessionRedirectsToLogin ==
    [][\A p \in Procs :
          (req'[p] # req[p] /\ req'[p].kind # "idle" /\ req'[p].session = NoId)
          => /\ req[p].pc = "idle" /\ req'[p].pc = "done"
             /\ req'[p].result =
                    "redirect:/login?" \o URLSearchParams(pathname(req'[p].kind))
             /\ UNCHANGED <<users, categories, transactions, incomes, budgets, nextId>>]_vars

\* a signed-out request for the edit action of an existing transaction was
\* redirected to /login
C13_Witness ==
    \E p \in Procs :
        /\ req[p].pc = "done" /\ req[p].session = NoId
        /\ req[p].kind = "transactions.edit"
        /\ req[p].result = "redirect:/login?redirectTo=%2Ftransactions%2Fid%2Fedit"
        /\ transactions # {}

\* ------------------------------------------------- budgets and month income
\* what the budget forms may carry, field by field: each budget type with
\* good, bad and missing values, the months 6, 13 and 0
BudgetInputForms ==
    {BudgetForm("amount", "100", NULL, "2000", "6", "2025"),
     BudgetForm("amount", "250", "25", "0", "6", "2025"),
     BudgetForm("amount", "abc", NULL, "2000", "6", "2025"),
     BudgetForm("amount", "0", NULL, "2000", "6", "2025"),
     BudgetForm("amount", "-5", NULL, "2000", "6", "2025"),
     BudgetForm("percentage", NULL, "25", "2000", "6", "2025"),
     BudgetForm("percentage", "100", "100", "2000", "6", "2025"),
     BudgetForm("percentage", NULL, "25", "150", "6", "2025"),
     BudgetForm("percentage", NULL, "150", "2000", "6", "2025"),
     BudgetForm("percentage", NULL, "0", "2000", "6", "2025"),
     BudgetForm("percentage", NULL, "25", "0", "6", "2025"),
     BudgetForm("percentage", NULL, "25", "abc", "6", "2025"),
     BudgetForm(NULL, "100", NULL, "2000", "6", "2025"),
     BudgetForm("amount", "100", NULL, "2000", "13", "2025"),
     BudgetForm("amount", "100", NULL, "2000", "0", "2025"),
     BudgetForm("amount", "100", NULL, "2000", NULL, "2025")}

\* the budget forms sent while incomes are recorded
IncomeBudgetForms ==
    {BudgetForm("amount", "100", NULL, "2000", "6", "2025"),
     BudgetForm("percentage", NULL, "25", "2000", "6", "2025"),
     BudgetForm("percentage", NULL, "25", "0", "6", "2025")}

\* budget and income requests, one at a time
NextBudgetIncome ==
    \E p \in {Client} :
        \/ BudgetsNewCheck(p, IncomeBudgetForms)
        \/ BudgetsNewCreate(p)
        \/ SaveBudget(p, IncomeBudgetForms)
        \/ IncomeNew(p)
        \/ RecordFind(p)
        \/ RecordDelete(p)
        \/ IncomeUpdate(p)
        \/ Respond(p)

\* two signed-up users, no records yet
SpecBudgetIncome == InitBudget /\ [][NextBudgetIncome]_vars

\* budget requests with every kind of form, one at a time
NextBudgetInput ==
    \E p \in {Client} :
        \/ BudgetsNewCheck(p, BudgetInputForms)
        \/ BudgetsNewCreate(p)
        \/ SaveBudget(p, BudgetInputForms)
        \/ Respond(p)

\* two signed-up users; the second has stored a budget for June 2025
InitBudgetInput ==
    /\ users = {[id |-> 1, email |-> "a@x.io", password |-> ""],
                [id |-> 2, email |-> "b@x.io", password |-> ""]}
    /\ categories = {}
    /\ transactions = {}
    /\ incomes = {}
    /\ budgets = {[id |-> 3, amount |-> 10000, month |-> 6, year |-> 2025, userId |-> 2]}
    /\ nextId = 4
    /\ req = [p \in Procs |-> Idle]

SpecBudgetInput == InitBudgetInput /\ [][NextBudgetInput]_vars

\* the sum of the amounts of a set of rows
RECURSIVE SumAmount(_)
SumAmount(rows) ==
    IF rows = {} THEN 0
    ELSE LET r == CHOOSE x \in rows : TRUE IN r.amount + SumAmount(rows \ {r})

\* the income a user has recorded for a month
MonthIncome(userId, month, year) ==
    SumAmount({i \in incomes : i.userId = userId /\ i.date.y = year /\ i.date.m = month})

\* a budget request of a signed-in user returns in this step
BudgetReturns(p) ==
    /\ Returns(p) /\ req'[p].kind \in {"budgets.new", "save-budget"}
    /\ req'[p].session # NoId

\* C14: a percentage-mode budget request is rejected with a validation error
\* and creates or changes no Budget row whenever the user's recorded income
\* of that month is 0, whatever income the form carries.
C14_PercentageNeedsRecordedIncome ==
    [][\A p \in Procs :
          (/\ BudgetReturns(p)
           /\ req'[p].budget.budgetType = "percentage"
           /\ req'[p].budget.month # NULL /\ ~parseInt(req'[p].budget.month).nan
           /\ ~parseInt(req'[p].budget.year).nan
           /\ MonthIncome(req'[p].session, parseInt(req'[p].budget.month).v,
                          parseInt(req'[p].budget.year).v) = 0)
          => /\ budgets' = budgets
             /\ req'[p].result = "errors:validation"]_vars

\* a budget request was accepted: it stored or updated a row
BudgetAccepted(r) ==
    r.result \in {"redirect:/budgets", "success:Budget updated successfully",
                  "success:Budget created successfully"}

\* the Budget rows an accepted request of p wrote in this step: the row it
\* named, or the new one
WrittenBy(p) ==
    IF req'[p].kind = "save-budget" /\ req'[p].id # NoId
    THEN {b \in budgets' : b.id = req'[p].id}
    ELSE budgets' \ budgets

C16_InvalidAmountRejected ==
    [][\A p \in Procs :
          (/\ BudgetReturns(p)
           /\ LET f == req'[p].budget IN
              \/ /\ f.budgetType = "amount"
                 /\ (f.amount = NULL \/ parseFloat(f.amount).nan \/ parseFloat(f.amount).v <= 0)
              \/ /\ f.budgetType = "percentage"
                 /\ \/ f.percentage = NULL \/ parseFloat(f.percentage).nan
                    \/ parseFloat(f.percentage).v <= 0
                    \/ parseFloat(f.percentage).v > 10000)
          => /\ req'[p].result = "errors:validation"
             /\ req[p].pc = "idle"
             /\ UNCHANGED <<budgets, nextId>>]_vars

\* a request with percentage 150 was rejected while a budget is stored
C16_Witness ==
    \E p \in Procs :
        /\ req[p].pc = "done" /\ req[p].kind = "save-budget"
        /\ req[p].budget.budgetType = "percentage" /\ req[p].budget.percentage = "150"
        /\ req[p].result = "errors:validation"
        /\ budgets # {}

\* C17: every Budget row that budget requests can store has amount > 0 and
\* month in 1..12, whatever the forms carry.
C17_StoredBudgetsAreValid ==
    \A b \in budgets : b.amount > 0 /\ b.month \in 1..12

\* C18: updating an existing budget changes only its amount: the row keeps
\* its id, userId, month and year, and no other Budget row is created,
\* changed or removed.
C18_UpdateChangesOnlyAmount ==
    [][\A p \in Procs :
          (/\ Returns(p) /\ req'[p].kind = "save-budget"
           /\ req'[p].result = "success:Budget updated successfully")
          => /\ Cardinality(budgets') = Cardinality(budgets)
             /\ \A b \in budgets :
                   IF b.id = req'[p].id
                   THEN \E c \in budgets' :
                           /\ c.id = b.id /\ c.userId = b.userId
                           /\ c.month = b.month /\ c.year = b.year
                           /\ c.amount = parseFloat(req'[p].budget.amount).v
                                  \/ req'[p].budget.budgetType # "amount"
                   ELSE b \in budgets']_vars

\* the budget of June 2025 was updated to 250 while another budget is stored
C18_Witness ==
    \E p \in Procs, b \in budgets, c \in budgets :
        /\ req[p].pc = "done" /\ req[p].kind = "save-budget"
        /\ req[p].result = "success:Budget updated successfully"
        /\ b.id = req[p].id /\ b.amount = 25000 /\ b.month = 6 /\ b.year = 2025
        /\ c.id # b.id

\* the requests that create, update or delete Income records
IncomeMutators == {"incomes.new", "incomes.edit", "incomes.delete"}

\* C19: once a Budget is stored, creating, updating or deleting Income
\* records never changes it: a step of an income request, and any step that
\* changes the Income rows, leaves every Budget row as it was.
C19_IncomeChangesKeepBudgets ==
    [][(\/ incomes' # incomes
        \/ \E p \in Procs : req'[p] # req[p] /\ req'[p].kind \in IncomeMutators)
       => budgets' = budgets]_vars

\* a ceiling of 25% of 2000 is stored for June 2025 and its owner has since
\* recorded an income of that month
C19_Witness ==
    \E b \in budgets, i \in incomes, p \in Procs :
        /\ b.amount = 50000 /\ b.month = 6 /\ b.year = 2025
        /\ i.userId = b.userId /\ i.id > b.id
        /\ i.date.m = b.month /\ i.date.y = b.year
        /\ req[p].pc = "done" /\ req[p].kind = "incomes.new" /\ req[p].id = i.id

\* ------------------------------------------------------- month summaries
\* the rows a user may have recorded before the pages are opened
MaxRows == 13

\* the instants the server may read from its clock as `now`: the local
\* calendar month, and the offset of local time from UTC in hours
Clock ==
    {[year |-> 2025, month |-> m, tz |-> tz] : m \in {6, 7}, tz \in {-5, 0}}

\* days from 2025-06-01 to the first day of a month
DaysBefore(y, m) ==
    CASE y = 2025 /\ m = 1 -> -151
      [] y = 2025 /\ m = 2 -> -120
      [] y = 2025 /\ m = 3 -> -92
      [] y = 2025 /\ m = 4 -> -61
      [] y = 2025 /\ m = 5 -> -31
      [] y = 2025 /\ m = 6 -> 0
      [] y = 2025 /\ m = 7 -> 30
      [] OTHER             -> 61

\* new Date('YYYY-MM-DD'), the stored value of a form's date: midnight UTC,
\* in hours since 2025-06-01T00:00Z
UtcMidnight(date) == (DaysBefore(date.y, date.m) + date.d - 1) * 24

\* new Date(year, month - 1, day): midnight in the server's local time
LocalMidnight(y, m, d, tz) == (DaysBefore(y, m) + d - 1) * 24 - tz

\* new Date(year, month, 0).getDate()
LastDay(y, m) ==
    IF m \in {4, 6, 9, 11} THEN 30
    ELSE IF m # 2 THEN 31
    ELSE IF y % 4 = 0 /\ (y % 100 # 0 \/ y % 400 = 0) THEN 29 ELSE 28

\* (mutant) the queries without the userId condition
InCurrentMonth_AnyUser(rows, userId, now) ==
    LET startOfMonth == LocalMidnight(now.year, now.month, 1, now.tz)
        endOfMonth == LocalMidnight(now.year, now.month, LastDay(now.year, now.month),
                                    now.tz)
    IN  {r \in rows : /\ UtcMidnight(r.date) >= startOfMonth
                      /\ UtcMidnight(r.date) <= endOfMonth}

\* where: { userId, date: { gte: startOfMonth, lte: endOfMonth } }
InCurrentMonth(rows, userId, now) ==
    LET startOfMonth == LocalMidnight(now.year, now.month, 1, now.tz)
        endOfMonth == LocalMidnight(now.year, now.month, LastDay(now.year, now.month),
                                    now.tz)
    IN  {r \in rows : /\ r.userId = userId
                      /\ UtcMidnight(r.date) >= startOfMonth
                      /\ UtcMidnight(r.date) <= endOfMonth}

\* the whole result set of a findMany without take
Page_All(rows) == {rows}

\* the result sets left when the k least recent rows are cut off (rows of
\* the same date come in any order)
RECURSIVE CutOldest(_, _)
CutOldest(rows, k) ==
    IF k = 0 THEN {rows}
    ELSE UNION {CutOldest(rows \ {o}, k - 1) :
                    o \in {r \in rows : \A x \in rows : UtcMidnight(r.date) <= UtcMidnight(x.date)}}

\* orderBy: { date: 'desc' }, take: 10: the result sets the query may give
Page_Take10(rows) ==
    CutOldest(rows, IF Cardinality(rows) <= 10 THEN 0 ELSE Cardinality(rows) - 10)

\* (mutant) the quotient without the test of the denominator
Ratio_Unguarded(num, den) ==
    IF den = 0 THEN NaN ELSE Num((num * 10000) \div den)

\* den > 0 ? (num / den) * 100 : 0, in hundredths of a percent; a division
\* by 0 gives a number that is not finite (NaN or an Infinity)
Ratio(num, den) ==
    IF den > 0
    THEN (IF den = 0 THEN NaN ELSE Num((num * 10000) \div den))
    ELSE Num(0)

\* (mutant) the warning starts at 80
BudgetsStatus_WarnAt80(percentage) ==
    IF ~percentage.nan /\ percentage.v > 10000 THEN "over budget"
    ELSE IF ~percentage.nan /\ percentage.v >= 8000 /\ percentage.v <= 10000 THEN "warning"
    ELSE "on track"

\* DashboardPage: isOverBudget ? ... : isWarning ? ... : ... (a comparison
\* with NaN is false)
DashboardStatus(percentage) ==
    IF ~percentage.nan /\ percentage.v > 10000 THEN "over budget"
    ELSE IF ~percentage.nan /\ percentage.v > 8000 /\ percentage.v <= 10000 THEN "warning"
    ELSE "on track"

\* BudgetsPage: the same two tests on data.percentage
BudgetsStatus(percentage) ==
    IF ~percentage.nan /\ percentage.v > 10000 THEN "over budget"
    ELSE IF ~percentage.nan /\ percentage.v > 8000 /\ percentage.v <= 10000 THEN "warning"
    ELSE "on track"

\* the summary both pages compute from their three result sets, with the
\* status the page shows for it
Summary(kind, txs, incs, budget, now) ==
    LET totalIncome == SumAmount(incs)
        totalExpenses == SumAmount(txs)
        budgetAmount == IF budget = {} THEN 0 ELSE (CHOOSE b \in budget : TRUE).amount
        percentage == Ratio(totalExpenses, budgetAmount)
    IN  [totalIncome |-> totalIncome, totalExpenses |-> totalExpenses,
         budgetAmount |-> budgetAmount, remaining |-> budgetAmount - totalExpenses,
         percentage |-> percentage,
         status |-> IF kind = "dashboard" THEN DashboardStatus(percentage)
                    ELSE BudgetsStatus(percentage),
         tz |-> now.tz]

\* a page loader: the three queries for the current month and the summary
PageLoader(p, kind, now, txs) ==
    /\ req[p].pc = "idle"
    /\ \E session \in Sessions :
        LET r == [Idle EXCEPT !.kind = kind, !.session = session,
                              !.month = now.month, !.year = now.year]
            incs == InCurrentMonth(incomes, session, now)
            budget == BudgetFindUnique(session, now.month, now.year)
        IN  req' = [req EXCEPT ![p] =
                IF ~requireUserId(session) THEN Done(r, RedirectLogin(kind))
                ELSE Done([r EXCEPT !.summary = Summary(kind, txs, incs, budget, now)],
                          "data")]
    /\ UNCHANGED <<users, categories, transactions, incomes, budgets, nextId>>

\* dashboard.tsx loader: the expenses are summed over the ten most recent
\* transactions of the month
DashboardLoader(p) ==
    \E now \in Clock, session \in Sessions :
    \E txs \in Page_Take10(InCurrentMonth(transactions, session, now)) :
        /\ PageLoader(p, "dashboard", now, txs)
        /\ req'[p].session = session

\* budgets.tsx loader
BudgetsLoader(p) ==
    \E now \in Clock, session \in Sessions :
    \E txs \in Page_All(InCurrentMonth(transactions, session, now)) :
        /\ PageLoader(p, "budgets", now, txs)
        /\ req'[p].session = session

\* the i-th recorded transaction: of user 1 in June 2025, but for one of
\* user 2 and one of July
RecordedTx(i) ==
    TxRow(i, IF i = 2 THEN 2 ELSE 1, NoId,
          TxData(TxForm(IF i % 2 = 0 THEN "100" ELSE "250", "Food & Dining", "lunch",
                        IF i = 3 THEN "2025-07-01" ELSE "2025-06-15", NULL, NULL)))

\* the i-th recorded income of user 1
RecordedIncome(i) ==
    IncomeRow(i, 1, IncomeForm("2000", "salary",
                               IF i = 2 THEN "2025-07-01" ELSE "2025-06-15"))

\* two users; user 1 has recorded any number of transactions and incomes
\* and may have a budget for June 2025
InitSummary ==
    /\ users = {[id |-> 1, email |-> "a@x.io", password |-> ""],
                [id |-> 2, email |-> "b@x.io", password |-> ""]}
    /\ categories = {}
    /\ \E n \in 0..MaxRows : transactions = {RecordedTx(i) : i \in 1..n}
    /\ \E n \in 0..2 : incomes = {RecordedIncome(i) : i \in 1..n}
    /\ budgets \in {{}, {[id |-> 1, amount |-> 100000, month |-> 6, year |-> 2025,
                          userId |-> 1]}}
    /\ nextId = MaxId + 1
    /\ req = [p \in Procs |-> Idle]

NextSummary ==
    \E p \in Procs :
        \/ DashboardLoader(p)
        \/ BudgetsLoader(p)
        \/ Respond(p)

SpecSummary == InitSummary /\ [][NextSummary]_vars

\* the user's rows whose date lies in a calendar month
DatedIn(rows, userId, month, year) ==
    {r \in rows : r.userId = userId /\ r.date.y = year /\ r.date.m = month}

\* a page loader has returned its data
Loaded(r) == r.pc = "done" /\ r.kind \in {"dashboard", "budgets"} /\ r.result = "data"

\* C20: the total expenses and total income that the dashboard and the
\* budgets page report for the current month equal the sums of the amounts
\* of the user's Transaction and Income rows dated within that month, for
\* any number of rows; both pages report the same totals and utilisation
\* for the same stored data and month.
C20_SummariesAreMonthSums ==
    /\ \A p \in Procs :
          Loaded(req[p])
          => /\ req[p].summary.totalExpenses
                    = SumAmount(DatedIn(transactions, req[p].session,
                                        req[p].month, req[p].year))
             /\ req[p].summary.totalIncome
                    = SumAmount(DatedIn(incomes, req[p].session,
                                        req[p].month, req[p].year))
    /\ \A p, q \in Procs :
          (/\ Loaded(req[p]) /\ Loaded(req[q])
           /\ req[p].session = req[q].session
           /\ req[p].month = req[q].month /\ req[p].year = req[q].year
           /\ req[p].summary.tz = req[q].summary.tz)
          => req[p].summary = req[q].summary

\* ---------------------------------------------------------------- analytics
\* new Date(tx.date).getDate(): the day of the month of a stored date in the
\* server's local time
getDate(date, tz) ==
    IF tz >= 0 THEN date.d
    ELSE IF date.d > 1 THEN date.d - 1
    ELSE LastDay(date.y, IF date.m = 1 THEN 12 ELSE date.m - 1)

\* one entry of monthsData: the three queries for the month i months before
\* the current one, and the figures derived from them
MonthDataOf(txRows, incRows, budgetRows, session, now, i) ==
    LET date == IF now.month - i >= 1
                THEN [now EXCEPT !.month = now.month - i]
                ELSE [now EXCEPT !.month = now.month - i + 12, !.year = now.year - 1]
        txs == InCurrentMonth(txRows, session, date)
        incs == InCurrentMonth(incRows, session, date)
        budget == {b \in budgetRows : b.userId = session /\ b.month = date.month
                                                        /\ b.year = date.year}
        totalExpenses == SumAmount(txs)
        totalIncome == SumAmount(incs)
        savingsAmount == totalIncome - totalExpenses
    IN  [month |-> date.month, expenses |-> totalExpenses, income |-> totalIncome,
         budget |-> IF budget = {} THEN 0 ELSE (CHOOSE b \in budget : TRUE).amount,
         transactions |-> Cardinality(txs),
         savings |-> savingsAmount,
         savingsRate |-> Ratio(savingsAmount, totalIncome),
         avgTransactionSize |-> IF Cardinality(txs) > 0
                                THEN totalExpenses \div Cardinality(txs) ELSE 0]

MonthData(session, now, i) == MonthDataOf(transactions, incomes, budgets, session, now, i)

\* categoryData: one entry per category name among the transactions, with
\* the colour of the catalog or the neutral one, sorted by b.value - a.value
\* (entries of equal value come in the order the query gave them: any order)
CategoryData(txs) ==
    LET names == {t.category : t \in txs}
        color(n) == IF \E k \in DOMAIN DEFAULT_CATEGORIES : DEFAULT_CATEGORIES[k].name = n
                    THEN DEFAULT_CATEGORIES[CHOOSE k \in DOMAIN DEFAULT_CATEGORIES :
                                                DEFAULT_CATEGORIES[k].name = n].color
                    ELSE "#6b7280"
        entries == {[name |-> n, value |-> SumAmount({t \in txs : t.category = n}),
                     color |-> color(n)] : n \in names}
        len == Cardinality(entries)
    IN  {f \in [1..len -> entries] :
            /\ \A i, j \in 1..len : i # j => f[i] # f[j]
            /\ \A i, j \in 1..len : i < j => f[i].value >= f[j].value}

\* dailyData: Array.from({ length: days of the month }, (_, i) =>
\* dailySpending[i + 1] || 0)
DailyData(txs, now) ==
    [day \in 1..LastDay(now.year, now.month) |->
        SumAmount({t \in txs : getDate(t.date, now.tz) = day})]

\* logout.tsx (analytics page) loader: six months of figures, the category
\* breakdown and the daily series of the current month, and the statistics
AnalyticsLoader(p) ==
    /\ req[p].pc = "idle"
    /\ \E session \in Sessions, now \in Clock :
        LET r == [Idle EXCEPT !.kind = "analytics", !.session = session,
                              !.month = now.month, !.year = now.year]
            monthsData == [k \in 1..6 |-> MonthData(session, now, 6 - k)]
            currentMonthTransactions == InCurrentMonth(transactions, session, now)
            currentMonthExpenses == monthsData[6].expenses
            lastMonthExpenses == monthsData[5].expenses
        IN  IF ~requireUserId(session)
            THEN req' = [req EXCEPT ![p] = Done(r, RedirectLogin("analytics"))]
            ELSE \E categoryData \in CategoryData(currentMonthTransactions) :
                    req' = [req EXCEPT ![p] =
                        Done([r EXCEPT !.analytics =
                                [monthsData |-> monthsData,
                                 categoryData |-> categoryData,
                                 dailyData |-> DailyData(currentMonthTransactions, now),
                                 expenseChange |->
                                     Ratio(currentMonthExpenses - lastMonthExpenses,
                                           lastMonthExpenses),
                                 tz |-> now.tz]],
                             "data")]
    /\ UNCHANGED <<users, categories, transactions, incomes, budgets, nextId>>

\* --------------------------------------------------------------------- chat
\* (mutant) the action without its try / catch
ChatResult_NoCatch(fetched, answer) ==
    IF ~fetched THEN "throw:getUserFinancialContext" ELSE "response:" \o answer

\* chatbot.server getChatbotResponse: the text of the completion, or the
\* apology when the completion call throws
getChatbotResponse(completed) ==
    IF completed THEN "advice"
    ELSE "Sorry, I'm having trouble connecting right now. Please try again in a moment!"

\* the try / catch of the chat action: { response }, or the error when the
\* financial-data fetch (or anything after it) throws
ChatResult(fetched, answer) ==
    IF ~fetched THEN "error:Failed to get response. Please try again."
    ELSE "response:" \o answer

\* chat action up to getUserFinancialContext: the message test and the three
\* queries of the current month (which may fail)
ChatFetch(p) ==
    /\ req[p].pc = "idle"
    /\ \E session \in Sessions, now \in Clock, fetched \in BOOLEAN,
          message \in {NULL, "", "   ", "How am I doing?"} :
        LET r == [Idle EXCEPT !.kind = "chat", !.session = session, !.message = message,
                              !.month = now.month, !.year = now.year]
            trimmed == IF message = "   " THEN "" ELSE message
            transactionsOfMonth == InCurrentMonth(transactions, session, now)
            budget == BudgetFindUnique(session, now.month, now.year)
            budgetAmount == IF budget = {} THEN 0 ELSE (CHOOSE b \in budget : TRUE).amount
            financialData ==
                [Idle.summary EXCEPT
                    !.totalIncome = SumAmount(InCurrentMonth(incomes, session, now)),
                    !.totalExpenses = SumAmount(transactionsOfMonth),
                    !.budgetAmount = budgetAmount,
                    !.remaining = budgetAmount - SumAmount(transactionsOfMonth),
                    !.tz = now.tz]
        IN  req' = [req EXCEPT ![p] =
                IF ~requireUserId(session) THEN Done(r, RedirectLogin("chat"))
                ELSE IF message = NULL \/ trimmed = ""
                     THEN Done(r, "error:Message is required")
                ELSE IF ~fetched THEN Done(r, ChatResult(FALSE, ""))
                ELSE [r EXCEPT !.pc = "chat.ask", !.summary = financialData]]
    /\ UNCHANGED <<users, categories, transactions, incomes, budgets, nextId>>

\* chat action, the completion call with the financial context
ChatAsk(p) ==
    /\ req[p].pc = "chat.ask"
    /\ \E completed \in BOOLEAN :
          req' = [req EXCEPT ![p] =
                     Done(req[p], ChatResult(TRUE, getChatbotResponse(completed)))]
    /\ UNCHANGED <<users, categories, transactions, incomes, budgets, nextId>>

\* transactions the users may have recorded: in two catalog categories and
\* without a category name, in June and on the first of July, one of user 2
AnalyticsTxs ==
    {TxRow(1, 1, NoId, TxData(TxForm("250", "Food & Dining", "", "2025-06-15", NULL, NULL))),
     TxRow(2, 1, NoId, TxData(TxForm("100", "Housing", "", "2025-06-15", NULL, NULL))),
     TxRow(3, 1, 9, TxData(TxForm("100", NULL, "", "2025-06-15", NULL, NULL))),
     TxRow(4, 1, NoId, TxData(TxForm("100", "Food & Dining", "", "2025-07-01", NULL, NULL))),
     TxRow(5, 2, NoId, TxData(TxForm("250", "Food & Dining", "", "2025-06-15", NULL, NULL))),
     TxRow(6, 1, NoId, TxData(TxForm("150", "Housing", "", "2025-06-15", NULL, NULL)))}

\* two users with any of these transactions, incomes of June and July, and
\* no budget, a budget of 0 or a budget of 250 for June
InitAnalytics ==
    /\ users = {[id |-> 1, email |-> "a@x.io", password |-> ""],
                [id |-> 2, email |-> "b@x.io", password |-> ""]}
    /\ categories = {}
    /\ transactions \in SUBSET AnalyticsTxs
    /\ incomes \in SUBSET {IncomeRow(1, 1, IncomeForm("150", "", "2025-06-15")),
                           IncomeRow(2, 1, IncomeForm("150", "", "2025-07-01"))}
    /\ \E amount \in {0, 25000} :
          budgets \in {{}, {[id |-> 1, amount |-> amount, month |-> 6, year |-> 2025,
                             userId |-> 1]}}
    /\ nextId = MaxId + 1
    /\ req = [p \in Procs |-> Idle]

NextAnalytics ==
    \E p \in {Client} :
        \/ AnalyticsLoader(p)
        \/ ChatFetch(p)
        \/ ChatAsk(p)
        \/ DashboardLoader(p)
        \/ BudgetsLoader(p)
        \/ Respond(p)

SpecAnalytics == InitAnalytics /\ [][NextAnalytics]_vars

\* C21: savings rate, month-over-month expense change and budget
\* utilisation are each exactly 0 whenever their denominator (income sum,
\* previous month's expenses, budget ceiling) is 0, and none of them is ever
\* the result of a division by zero (a number that is not finite).
C21_ZeroDenominatorGivesZero ==
    \A p \in Procs :
        /\ (req[p].pc = "done" /\ req[p].kind = "analytics" /\ req[p].result = "data")
           => LET a == req[p].analytics IN
              /\ \A k \in 1..6 :
                    /\ ~a.monthsData[k].savingsRate.nan
                    /\ a.monthsData[k].income = 0 => a.monthsData[k].savingsRate = Num(0)
              /\ ~a.expenseChange.nan
              /\ a.monthsData[5].expenses = 0 => a.expenseChange = Num(0)
        /\ Loaded(req[p])
           => /\ ~req[p].summary.percentage.nan
              /\ req[p].summary.budgetAmount = 0 => req[p].summary.percentage = Num(0)

\* the analytics page was loaded for a July without income, after a June
\* without expenses, and the budgets page for a month with expenses whose
\* budget is 0
C21_Witness ==
    \E p \in Procs :
        \/ /\ req[p].pc = "done" /\ req[p].kind = "analytics" /\ req[p].result = "data"
           /\ req[p].analytics.monthsData[6].income = 0
           /\ req[p].analytics.monthsData[6].expenses > 0
           /\ req[p].analytics.monthsData[5].expenses = 0
           /\ req[p].analytics.monthsData[6].savingsRate = Num(0)
           /\ req[p].analytics.expenseChange = Num(0)
           /\ transactions # {} /\ incomes # {}
        \/ /\ Loaded(req[p]) /\ req[p].kind = "budgets"
           /\ req[p].summary.totalExpenses > 0
           /\ \E b \in budgets : b.userId = req[p].session /\ b.amount = 0
                                 /\ b.month = req[p].month
           /\ req[p].summary.percentage = Num(0)

\* C22: the budget status is a function of the utilisation percentage with
\* one result per value: on track up to 80, warning above 80 and up to 100,
\* over budget above 100; the dashboard and the budgets page classify the
\* same percentage alike.
C22_StatusByPercentage ==
    \A p \in Procs :
        Loaded(req[p])
        => LET percentage == req[p].summary.percentage IN
           /\ req[p].summary.status =
                  (IF percentage.v <= 8000 THEN "on track"
                   ELSE IF percentage.v <= 10000 THEN "warning"
                   ELSE "over budget")
           /\ DashboardStatus(percentage) = BudgetsStatus(percentage)

\* the budgets page shows a utilisation of exactly 80% as on track
C22_Witness ==
    \E p \in Procs :
        /\ Loaded(req[p]) /\ req[p].kind = "budgets"
        /\ req[p].summary.percentage = Num(8000)
        /\ req[p].summary.status = "on track"

\* the analytics loader has returned its data
AnalyticsLoaded(r) == r.pc = "done" /\ r.kind = "analytics" /\ r.result = "data"

\* the sum of the entries of a sequence of numbers
RECURSIVE SumSeq(_)
SumSeq(seq) == IF seq = <<>> THEN 0 ELSE Head(seq) + SumSeq(Tail(seq))

\* C23: the daily-spending series of the current month has one entry per
\* calendar day of the month (28 to 31 entries, for the days 1..N), every
\* entry is non-negative, a day on which no transaction of the user is dated
\* is 0, and the entries sum to the total of the user's transactions dated
\* in the month.
C23_DailySeriesCoversMonth ==
    \A p \in Procs :
        AnalyticsLoaded(req[p])
        => LET daily == req[p].analytics.dailyData
               month == DatedIn(transactions, req[p].session, req[p].month, req[p].year)
           IN  /\ Len(daily) = LastDay(req[p].year, req[p].month)
               /\ Len(daily) \in 28..31
               /\ \A day \in 1..Len(daily) :
                     /\ daily[day] >= 0
                     /\ (\A t \in month : t.date.d # day) => daily[day] = 0
               /\ SumSeq(daily) = SumAmount(month)

\* C24: the per-category breakdown of the analytics page lists each
\* category that occurs among the user's transactions of the month once, in
\* non-increasing order of total; the totals sum to the month's expenses; a
\* name that is not in the default catalog has the colour #6b7280.
C24_CategoryBreakdown ==
    \A p \in Procs :
        AnalyticsLoaded(req[p])
        => LET data == req[p].analytics.categoryData
               month == DatedIn(transactions, req[p].session, req[p].month, req[p].year)
           IN  /\ {data[i].name : i \in 1..Len(data)} = {t.category : t \in month}
               /\ \A i, j \in 1..Len(data) : i < j =>
                     /\ data[i].name # data[j].name
                     /\ data[i].value >= data[j].value
               /\ SumSeq([i \in 1..Len(data) |-> data[i].value]) = SumAmount(month)
               /\ \A i \in 1..Len(data) :
                     (~ \E k \in DOMAIN DEFAULT_CATEGORIES :
                            DEFAULT_CATEGORIES[k].name = data[i].name)
                     => data[i].color = "#6b7280"

\* ------------------------------------------------------ record form input
\* constants.ts TRANSACTION_FREQUENCIES.map(f => f.value)
TRANSACTION_FREQUENCIES ==
    {"once", "daily", "weekly", "biweekly", "monthly", "quarterly", "yearly"}

\* transaction forms: complete, with a date string that is no date, with a
\* recurrence of the list and with one that is not of the list
RecordInputForms ==
    {TxForm("100", "Food & Dining", "lunch", "2025-06-15", NULL, NULL),
     TxForm("100", "Food & Dining", "", "garbage", NULL, NULL),
     TxForm("abc", "Food & Dining", "", "2025-06-15", NULL, "weekly"),
     TxForm("100", "Housing", "", "2025-06-15", "on", "weekly"),
     TxForm("100", "Housing", "", "2025-06-15", "on", "hourly")}

\* the record requests of one client
NextRecordInput ==
    \E p \in {Client} :
        \/ TransactionNewWith(p, RecordInputForms)
        \/ IncomeNew(p)
        \/ RecordFind(p)
        \/ RecordDelete(p)
        \/ TransactionUpdate(p)
        \/ IncomeUpdate(p)
        \/ Respond(p)

SpecRecordInput == InitRecords /\ [][NextRecordInput]_vars

\* C25: a transaction or income create or update request of a signed-in
\* user ends either by storing the record (the redirect to the list) or, for
\* a malformed or missing amount, date or category, by returning an error
\* payload with every table unchanged; it never ends with an exception.
C25_MalformedInputGivesErrors ==
    [][\A p \in Procs :
          (/\ Returns(p) /\ req'[p].session # NoId
           /\ req'[p].kind \in {"transactions.new", "incomes.new",
                                "transactions.edit", "incomes.edit"})
          => \/ req'[p].result \in {"redirect:/transactions", "redirect:/incomes"}
             \/ /\ req'[p].result \in {"errors:validation", "errors.category:Invalid category",
                                       "error:ID required", "error:Transaction not found",
                                       "error:Income not found"}
                /\ UNCHANGED <<transactions, incomes>>]_vars

\* C30: every stored Transaction has frequency null when it is not
\* recurring, and a frequency of the list (once, daily, weekly, biweekly,
\* monthly, quarterly, yearly) when it is.
C30_RecurrenceHasFrequency ==
    \A t \in transactions :
        /\ ~t.isRecurring => t.frequency = NULL
        /\ t.isRecurring => t.frequency \in TRANSACTION_FREQUENCIES

verifyPassword(password, hashedPassword) == hashedPassword = hashPassword(password)

\* the fixed hash verifyLogin compares against when no user has the email
InvalidHash == "$2a$10$invalid.hash.to.prevent.timing.attack"

InvalidLogin == "errors.email:Invalid email or password"

\* login action: email.length >= 3 and email.includes('@'), password non-empty
LoginFormOk(email, password) ==
    IF email = NULL \/ Len(email) < 3 \/ email \notin Emails
    THEN "errors.email:Please enter a valid email address"
    ELSE IF password = NULL \/ Len(password) = 0 THEN "errors.password:Password is required"
    ELSE ""

\* (mutant) verifyLogin returns null as soon as no user has the email
VerifyLoginNoUser_ReturnEarly(r) == Done(r, InvalidLogin)

\* verifyLogin, no user with the email: the password is still compared,
\* against the fixed invalid hash
VerifyLoginNoUser(r) == [r EXCEPT !.pc = "verifyLogin.compare", !.hashed = InvalidHash]

\* login action up to and including the findUnique of verifyLogin
VerifyLoginFind(p) ==
    /\ req[p].pc = "idle"
    /\ \E email \in EmailStrs, password \in PasswordStrs :
        LET r == [Idle EXCEPT !.kind = "login"]
            re == [r EXCEPT !.email = email, !.password = password]
            found == UserFindUnique(email)
        IN  req' = [req EXCEPT ![p] =
                IF LoginFormOk(email, password) # ""
                THEN Done(r, LoginFormOk(email, password))
                ELSE IF found = {} THEN VerifyLoginNoUser(re)
                ELSE LET user == CHOOSE u \in found : TRUE
                     IN  [re EXCEPT !.pc = "verifyLogin.compare", !.id = user.id,
                                    !.hashed = user.password]]
    /\ UNCHANGED <<users, categories, transactions, incomes, budgets, nextId>>

\* verifyLogin: the awaited bcrypt.compare and the return of null or of the
\* user, then the login action's error payload or createUserSession
VerifyLoginCompare(p) ==
    /\ req[p].pc = "verifyLogin.compare"
    /\ LET r == [req[p] EXCEPT !.compares = @ + 1]
           isPasswordValid == verifyPassword(req[p].password, req[p].hashed)
       IN  req' = [req EXCEPT ![p] =
               IF req[p].hashed = InvalidHash \/ ~isPasswordValid
               THEN Done([r EXCEPT !.id = NoId], InvalidLogin)
               ELSE Done(r, "session")]
    /\ UNCHANGED <<users, categories, transactions, incomes, budgets, nextId>>

\* a credential that carries the identity provider's signature; no code of
\* the login or signup action evaluates this
GoogleSigned(credential) == credential \in {"jwt:a@x.io", "jwt:b@x.io"}

\* one user who signed up with a password
InitLogin ==
    /\ users = {[id |-> 1, email |-> "a@x.io", password |-> hashPassword("Str0ng!pw")]}
    /\ categories = SeedRows(1)
    /\ transactions = {}
    /\ incomes = {}
    /\ budgets = {}
    /\ nextId = 2
    /\ req = [p \in Procs |-> Idle]

NextLogin ==
    \E p \in Procs :
        \/ VerifyLoginFind(p)
        \/ VerifyLoginCompare(p)
        \/ GoogleFindWith(p, Credentials \cup {"forged:a@x.io"})
        \/ GoogleCreate(p)
        \/ Respond(p)

SpecLogin == InitLogin /\ [][NextLogin]_vars

\* C27: every execution of verifyLogin performs exactly one password-hash
\* comparison before it returns: a login request leaves verifyLogin only by
\* the comparison step, with one comparison counted, also when no user has
\* the email (the comparison is then against the fixed invalid hash and the
\* outcome is null); a user is returned only when a user with the email
\* exists and the submitted password matches that user's hash.
C27_OneComparisonPerLogin ==
    [][\A p \in Procs :
          (req'[p] # req[p] /\ req'[p].kind = "login" /\ req'[p].pc = "done"
           /\ req'[p].result \in {InvalidLogin, "session"})
          => /\ req[p].pc = "verifyLogin.compare"
             /\ req[p].compares = 0 /\ req'[p].compares = 1
             /\ UserFindUnique(req[p].email) = {} => req'[p].result = InvalidLogin
             /\ req'[p].result = "session"
                => \E u \in users : /\ u.email = req[p].email
                                    /\ u.id = req'[p].id
                                    /\ verifyPassword(req[p].password, u.password)]_vars

\* a login for an email no user has was refused after one comparison, and a
\* login with the right password got its session after one comparison
C27_Witness ==
    \E p, q \in Procs :
        /\ req[p].kind = "login" /\ req[p].pc = "done"
        /\ UserFindUnique(req[p].email) = {}
        /\ req[p].result = InvalidLogin /\ req[p].compares = 1
        /\ req[q].kind = "login" /\ req[q].pc = "done"
        /\ req[q].result = "session" /\ req[q].compares = 1 /\ req[q].id = 1

\* C29: a session for a user is issued only by a request that proved
\* control of that user's account in the same request: a verified password,
\* the creation of the account, or an external credential that carries the
\* identity provider's signature.
C29_SessionProvesControl ==
    [][\A p \in Procs :
          (req'[p] # req[p] /\ req'[p].pc = "done" /\ req'[p].result = "session")
          => \/ req'[p].kind = "login"
             \/ \E u \in users' \ users : u.id = req'[p].id
             \/ GoogleSigned(req'[p].credential)]_vars

\* ------------------------------------------------------------ list loaders
\* the month parameter of the list pages: month.split('-') and parseInt give
\* the year and the month whose local first and last day bound the dates
MonthParam(month, tz) ==
    CASE month = "2025-06" -> [year |-> 2025, month |-> 6, tz |-> tz]
      [] month = "2025-07" -> [year |-> 2025, month |-> 7, tz |-> tz]

\* transactions.tsx loader: where = { userId }, narrowed by category and
\* by the dates of the month parameter when these are given
TransactionsWhere(rows, userId, category, month, tz) ==
    {r \in (IF month = NULL \/ month = "" THEN {x \in rows : x.userId = userId}
            ELSE InCurrentMonth(rows, userId, MonthParam(month, tz))) :
        (category # NULL /\ category # "") => r.category = category}

\* incomes.tsx loader: where = { userId }, narrowed by the month parameter
IncomesWhere(rows, userId, month, tz) ==
    IF month = NULL \/ month = "" THEN {x \in rows : x.userId = userId}
    ELSE InCurrentMonth(rows, userId, MonthParam(month, tz))

\* what the transactions list returns from a Transaction table (the rows
\* come ordered by date; the order is a function of the rows)
TransactionsList(rows, userId, category, month, tz) ==
    LET found == TransactionsWhere(rows, userId, category, month, tz)
    IN  [rows |-> found, total |-> SumAmount(found), totalAccumulated |-> 0,
         totalThisMonth |-> 0, category |-> category, month |-> month, tz |-> tz]

\* what the incomes list returns from an Income table: the filtered rows and
\* their total, the all-time total and the total of the current month
IncomesList(rows, userId, month, now) ==
    LET found == IncomesWhere(rows, userId, month, now.tz)
    IN  [rows |-> found, total |-> SumAmount(found),
         totalAccumulated |-> SumAmount({x \in rows : x.userId = userId}),
         totalThisMonth |-> SumAmount(InCurrentMonth(rows, userId, now)),
         category |-> NULL, month |-> month, tz |-> now.tz]

\* transaction/transactions.tsx loader
TransactionsLoader(p) ==
    /\ req[p].pc = "idle"
    /\ \E session \in Sessions, now \in Clock, category \in {NULL, "Housing"},
          month \in {NULL, "2025-06"} :
        LET r == [Idle EXCEPT !.kind = "transactions", !.session = session,
                              !.month = now.month, !.year = now.year]
        IN  req' = [req EXCEPT ![p] =
                IF ~requireUserId(session) THEN Done(r, RedirectLogin("transactions"))
                ELSE Done([r EXCEPT !.list = TransactionsList(transactions, session,
                                                              category, month, now.tz)],
                          "data")]
    /\ UNCHANGED <<users, categories, transactions, incomes, budgets, nextId>>

\* incomes.tsx loader: findMany and the two aggregates
IncomesLoader(p) ==
    /\ req[p].pc = "idle"
    /\ \E session \in Sessions, now \in Clock, month \in {NULL, "2025-07"} :
        LET r == [Idle EXCEPT !.kind = "incomes", !.session = session,
                              !.month = now.month, !.year = now.year]
        IN  req' = [req EXCEPT ![p] =
                IF ~requireUserId(session) THEN Done(r, RedirectLogin("incomes"))
                ELSE Done([r EXCEPT !.list = IncomesList(incomes, session, month, now)],
                          "data")]
    /\ UNCHANGED <<users, categories, transactions, incomes, budgets, nextId>>

\* rows two users may have stored: each table holds rows of both
SharedTxs ==
    {TxRow(1, 1, NoId, TxData(TxForm("250", "Food & Dining", "", "2025-06-15", NULL, NULL))),
     TxRow(2, 2, NoId, TxData(TxForm("150", "Housing", "", "2025-06-15", NULL, NULL))),
     TxRow(3, 2, NoId, TxData(TxForm("13", "Travel", "", "2025-07-01", NULL, NULL)))}

SharedIncomes ==
    {IncomeRow(1, 1, IncomeForm("2000", "salary", "2025-06-15")),
     IncomeRow(2, 2, IncomeForm("150", "", "2025-06-15"))}

SharedBudgets ==
    {[id |-> 1, amount |-> 25000, month |-> 6, year |-> 2025, userId |-> 1],
     [id |-> 2, amount |-> 10000, month |-> 6, year |-> 2025, userId |-> 2]}

\* two users, each with any of these rows
InitShared ==
    /\ users = {[id |-> 1, email |-> "a@x.io", password |-> ""],
                [id |-> 2, email |-> "b@x.io", password |-> ""]}
    /\ categories = {}
    /\ transactions \in SUBSET SharedTxs
    /\ incomes \in SUBSET SharedIncomes
    /\ budgets \in SUBSET SharedBudgets
    /\ nextId = MaxId + 1
    /\ req = [p \in Procs |-> Idle]

NextShared ==
    \E p \in {Client} :
        \/ TransactionsLoader(p)
        \/ IncomesLoader(p)
        \/ DashboardLoader(p)
        \/ BudgetsLoader(p)
        \/ AnalyticsLoader(p)
        \/ ChatFetch(p)
        \/ ChatAsk(p)
        \/ Respond(p)

SpecShared == InitShared /\ [][NextShared]_vars

\* the database states that agree with the stored one on every row owned by
\* the user: the rows of the other users are any of those they may have
Agreeing(userId) ==
    {[transactions |-> OwnedBy(transactions, userId) \cup t,
      incomes |-> OwnedBy(incomes, userId) \cup i,
      budgets |-> OwnedBy(budgets, userId) \cup b] :
        t \in SUBSET (SharedTxs \ OwnedBy(SharedTxs, userId)),
        i \in SUBSET (SharedIncomes \ OwnedBy(SharedIncomes, userId)),
        b \in SUBSET (SharedBudgets \ OwnedBy(SharedBudgets, userId))}

\* the results a loader may return to the session of request r, with r's
\* parameters and clock, from the database state db
ResultsFrom(db, r) ==
    LET now == [year |-> r.year, month |-> r.month,
                tz |-> CASE r.kind = "analytics" -> r.analytics.tz
                         [] r.kind \in {"transactions", "incomes"} -> r.list.tz
                         [] OTHER -> r.summary.tz]
        txs == InCurrentMonth(db.transactions, r.session, now)
        incs == InCurrentMonth(db.incomes, r.session, now)
        budget == {b \in db.budgets : b.userId = r.session /\ b.month = now.month
                                                          /\ b.year = now.year}
        budgetAmount == IF budget = {} THEN 0 ELSE (CHOOSE b \in budget : TRUE).amount
        monthsData == [k \in 1..6 |-> MonthDataOf(db.transactions, db.incomes, db.budgets,
                                                  r.session, now, 6 - k)]
    IN  CASE r.kind = "transactions" ->
               {[Idle EXCEPT !.list = TransactionsList(db.transactions, r.session,
                                                       r.list.category, r.list.month,
                                                       now.tz)]}
          [] r.kind = "incomes" ->
               {[Idle EXCEPT !.list = IncomesList(db.incomes, r.session, r.list.month, now)]}
          [] r.kind = "dashboard" ->
               {[Idle EXCEPT !.summary = Summary("dashboard", page, incs, budget, now)] :
                    page \in Page_Take10(txs)}
          [] r.kind = "budgets" ->
               {[Idle EXCEPT !.summary = Summary("budgets", txs, incs, budget, now)]}
          [] r.kind = "analytics" ->
               {[Idle EXCEPT !.analytics =
                    [monthsData |-> monthsData, categoryData |-> categoryData,
                     dailyData |-> DailyData(txs, now),
                     expenseChange |-> Ratio(monthsData[6].expenses - monthsData[5].expenses,
                                             monthsData[5].expenses),
                     tz |-> now.tz]] : categoryData \in CategoryData(txs)}
          [] r.kind = "chat" ->
               {[Idle EXCEPT !.summary =
                    [Idle.summary EXCEPT !.totalIncome = SumAmount(incs),
                                         !.totalExpenses = SumAmount(txs),
                                         !.budgetAmount = budgetAmount,
                                         !.remaining = budgetAmount - SumAmount(txs),
                                         !.tz = now.tz]]}

\* a request that holds what a loader read for a signed-in user
Read(r) ==
    /\ r.session # NoId
    /\ \/ r.pc = "done" /\ r.result = "data"
          /\ r.kind \in {"transactions", "incomes", "dashboard", "budgets", "analytics"}
       \/ r.kind = "chat" /\ (r.pc = "chat.ask" \/ (r.pc = "done" /\ r.result # "error:Message is required"
                                                                  /\ r.result # ChatResult(FALSE, "")))

\* C28: noninterference between users.  What a loader (transactions list,
\* incomes list, dashboard, budgets page, analytics page, chat context)
\* returned to a user's session is a result the same loader returns from
\* every database state that agrees with the stored one on the rows that
\* user owns: no row of another user changes it.
C28_LoadersSeeOwnRowsOnly ==
    \A p \in Procs :
        Read(req[p]) =>
            \A db \in Agreeing(req[p].session) :
                \E res \in ResultsFrom(db, req[p]) :
                    /\ res.list = req[p].list
                    /\ res.summary = req[p].summary
                    /\ res.analytics = req[p].analytics

\* every kind of loader has answered user 1 while user 2 has rows in each
\* table that fall in the month read
C28_Witness ==
    \E p \in Procs :
        /\ Read(req[p]) /\ req[p].session = 1 /\ req[p].kind = "analytics"
        /\ req[p].month = 6 /\ req[p].analytics.monthsData[6].expenses > 0
        /\ OwnedBy(transactions, 2) = OwnedBy(SharedTxs, 2)
        /\ OwnedBy(incomes, 2) = OwnedBy(SharedIncomes, 2)
        /\ OwnedBy(budgets, 2) = OwnedBy(SharedBudgets, 2)

====
